---- MODULE Spec2Model ----
(***************************************************************************)
(* voxdex: transcript assembly and speaker resolution.                     *)
(*                                                                         *)
(* One module, several specifications, one per component:                  *)
(*   SpecMerge    WhisperXTranscriber._merge_segments (the coalescer)      *)
(* Python dicts are objects: a list holds references.  The coalescer part  *)
(* therefore keeps a heap (a sequence of dict values, the index is the     *)
(* object's identity) and lists of references into it.                     *)
(* Text is a sequence of one-character strings.  Times are whole seconds.  *)
(***************************************************************************)
EXTENDS Integers, Sequences, FiniteSets, TLC

VARIABLES
    heap,          \* coalescer: the dict objects, by identity
    diarized,      \* coalescer: diarized_segments, a list of references
    snapshot,      \* coalescer: the values of the input dicts when _merge_segments was called
    merged,        \* coalescer: the list _merge_segments returned
    remerged,      \* coalescer: the list a second _merge_segments call on `merged` returned
    mpc,           \* coalescer: position of the caller
    diarization_segments,    \* aligner: the diarization turns, sorted by start
    transcription_segments,  \* aligner: the transcript segments
    merged_segments,         \* aligner: what merge_with_transcription returned
    apc,                     \* aligner: position of the caller
    ctx_segments,            \* sampler: the segments _build_context_text is given
    segments_to_use,         \* sampler: the segments it selected
    context_lines,           \* sampler: the lines of the text it returned
    cpc,                     \* sampler: position of the caller
    api_key,                 \* naming: config.llm.api_key
    speaker_identifier,      \* naming: the class of self.speaker_identifier
    caller,                  \* naming: process_episode or reprocess_episode
    diarized_segments,       \* naming: the segments identify_speakers is given
    oracle_response,         \* naming: what the oracle call did
    llm_segments,            \* naming: the segments identify_speakers returned
    speaker_mappings,        \* naming: the mapping it returned, a dict
    identify_raised,         \* naming: whether identify_speakers raised
    run_outcome,             \* naming: how the caller's run ended
    npc,                     \* naming: position of the caller
    feed_pc,                 \* orchestrator: position of process_feed
    output_dir,              \* orchestrator: the output_dir argument
    episodes,                \* orchestrator: what parse_feed returned
    ep_pc,                   \* orchestrator: position of each episode's process_episode
    outcome,                 \* orchestrator: how each future ended
    files,                   \* orchestrator: the transcript files on disk
    audio_files,             \* orchestrator: the audio files on disk
    work,                    \* orchestrator: the calls each process_episode has made
    files_at_start,          \* orchestrator: the files on disk when process_episode was entered
    written,                 \* orchestrator: the files each process_episode wrote
    collected,               \* orchestrator: the futures as_completed has yielded
    error_log,               \* orchestrator: the failures process_feed logged
    apply_heap,              \* mapping application: the segment dicts, by identity
    apply_refs,              \* mapping application: the list _apply_speaker_mappings is given
    apply_snapshot,          \* mapping application: the values of that list at the call
    apply_class,             \* mapping application: the class whose method is called
    apply_mapping,           \* mapping application: the mapping applied
    applied,                 \* mapping application: what the call returned or that it raised
    reapplied,               \* mapping application: the same for a second call on the result
    xpc,                     \* mapping application: position of the caller
    all_feeds,               \* batch: config.feeds, each with what parse_feed will give
    feed_index,              \* batch: position of the loop of process_all_feeds
    all_pc,                  \* batch: position of process_all_feeds and of its process_feed
    flight,                  \* batch: where each episode of each feed is
    gathered,                \* batch: the futures as_completed has yielded
    feed_errors,             \* batch: the feeds whose process_feed raised
    backfill_args,           \* backfill: the parsed command line
    episode_num,             \* backfill: the loop variable of main
    success_count,           \* backfill: main's count of successes
    error_count,             \* backfill: main's count of errors
    backfill_log,            \* backfill: what happened to each episode of the range
    bpc,                     \* backfill: position of main
    metadata_file,           \* reprocessing: the object in <prefix>_metadata.json, if any
    metadata_before,         \* reprocessing: that object when reprocess_episode was entered
    processing_metadata,     \* reprocessing: the processing metadata of the last run
    reprocess_result,        \* reprocessing: result['success'] of the last reprocess_episode
    reprocess_runs,          \* reprocessing: how many times the episode was reprocessed
    rpc,                     \* reprocessing: what ran last
    simple_transcription,    \* SimpleDiarizer: the transcription segments given to it
    simple_merged,           \* SimpleDiarizer: the list merge_with_transcription returned
    spc                      \* SimpleDiarizer: what ran last

mergeVars == <<heap, diarized, snapshot, merged, remerged, mpc>>
alignVars == <<diarization_segments, transcription_segments, merged_segments, apc>>
ctxVars == <<ctx_segments, segments_to_use, context_lines, cpc>>
nameVars == <<api_key, speaker_identifier, caller, diarized_segments, oracle_response,
              llm_segments, speaker_mappings, identify_raised, run_outcome, npc>>
pipeVars == <<feed_pc, output_dir, episodes, ep_pc, outcome, files, audio_files, work,
              files_at_start, written, collected, error_log>>
applyVars == <<apply_heap, apply_refs, apply_snapshot, apply_class, apply_mapping,
               applied, reapplied, xpc>>
feedsVars == <<all_feeds, feed_index, all_pc, flight, gathered, feed_errors>>
backfillVars == <<backfill_args, episode_num, success_count, error_count, backfill_log, bpc>>
reprocessVars == <<metadata_file, metadata_before, processing_metadata, reprocess_result,
                   reprocess_runs, rpc>>
simpleVars == <<simple_transcription, simple_merged, spc>>
vars == <<heap, diarized, snapshot, merged, remerged, mpc,
          diarization_segments, transcription_segments, merged_segments, apc,
          ctx_segments, segments_to_use, context_lines, cpc,
          api_key, speaker_identifier, caller, diarized_segments, oracle_response,
          llm_segments, speaker_mappings, identify_raised, run_outcome, npc,
          feed_pc, output_dir, episodes, ep_pc, outcome, files, audio_files, work,
          files_at_start, written, collected, error_log,
          apply_heap, apply_refs, apply_snapshot, apply_class, apply_mapping,
          applied, reapplied, xpc,
          all_feeds, feed_index, all_pc, flight, gathered, feed_errors,
          backfill_args, episode_num, success_count, error_count, backfill_log, bpc,
          metadata_file, metadata_before, processing_metadata, reprocess_result,
          reprocess_runs, rpc,
          simple_transcription, simple_merged, spc>>

None == "None"

(***************************************************************************)
(* Bounds of the model.                                                    *)
(***************************************************************************)
MaxSegs == 3
MaxTime == 3
MaxTurns == 3
MaxTranscript == 1
MaxCtxSegs == 3
MaxNameSegs == 2
MaxEpisodes == 2
MaxLeftovers == 1
MaxApplySegs == 2
MaxFeeds == 2
MaxFeedEpisodes == 3
MaxBackfillEnd == 4
MaxReprocess == 2
MaxSimpleSegs == 3
MaxSimpleTime == 5
\* SimpleDiarizer.__init__(silence_threshold=2.0), in whole seconds
silence_threshold == 2

Times == 0..MaxTime
SpeakerIds == {"SPEAKER_00", "SPEAKER_01"}
Texts == {<<"a">>, <<"b", "c">>}


(***************************************************************************)
(* Segment Coalescer: whisperx_transcriber.py                              *)
(***************************************************************************)
MergeGapTolerance == 2

\* The condition of the if: same speaker, and the gap to the run's end under the tolerance.
ShouldMergeAtBoundary(current_segment, segment) ==
    /\ current_segment.speaker = segment.speaker
    /\ segment.start - current_segment.end <= MergeGapTolerance

ShouldMergeEndTypo(current_segment, segment) ==
    /\ current_segment.speaker = segment.speaker
    /\ segment.end - current_segment.end < MergeGapTolerance

ShouldMergeAnySpeaker(current_segment, segment) ==
    segment.start - current_segment.end < MergeGapTolerance

ShouldMerge(current_segment, segment) ==
    /\ current_segment.speaker = segment.speaker
    /\ segment.start - current_segment.end < MergeGapTolerance

\* A missing .copy(): the list entry itself becomes the run.
DictAlias(h, ref) == [heap |-> h, ref |-> ref]

\* dict.copy(): a new object with the same items.
DictCopy(h, ref) == [heap |-> Append(h, h[ref]), ref |-> Len(h) + 1]

\* The for loop of _merge_segments over segments[1:], `rest` being what is left.
RECURSIVE MergeLoop(_, _, _, _)
MergeLoop(h, rest, current_segment, out) ==
    IF rest = <<>>
    THEN [heap |-> h, merged |-> Append(out, current_segment)]
    ELSE LET segment == Head(rest) IN
         IF ShouldMerge(h[current_segment], h[segment])
         THEN MergeLoop([h EXCEPT ![current_segment].end = h[segment].end,
                                  ![current_segment].text = @ \o <<" ">> \o h[segment].text],
                        Tail(rest), current_segment, out)
         ELSE LET c == DictCopy(h, segment) IN
              MergeLoop(c.heap, Tail(rest), c.ref, Append(out, current_segment))

merge_segments(h, segments) ==
    IF segments = <<>>
    THEN [heap |-> h, merged |-> segments]
    ELSE LET c == DictCopy(h, segments[1]) IN
         MergeLoop(c.heap, Tail(segments), c.ref, <<>>)

\* The values a list of references denotes.
Deref(h, refs) == [i \in DOMAIN refs |-> h[refs[i]]]

\* transcribe_and_diarize appends one converted segment to diarized_segments.
AppendSegment ==
    /\ mpc = "collect"
    /\ Len(diarized) < MaxSegs
    /\ \E st \in Times, en \in Times, sp \in SpeakerIds, tx \in Texts :
          /\ st <= en
          /\ diarized /= <<>> => heap[diarized[Len(diarized)]].start <= st
          /\ heap' = Append(heap, [start |-> st, end |-> en, text |-> tx, speaker |-> sp])
          /\ diarized' = Append(diarized, Len(heap) + 1)
    /\ UNCHANGED <<snapshot, merged, remerged, mpc>>
    /\ UNCHANGED <<alignVars, ctxVars, nameVars, pipeVars, applyVars, feedsVars, backfillVars, reprocessVars, simpleVars>>

\* diarized_segments = self._merge_segments(diarized_segments)
CallMerge ==
    /\ mpc = "collect"
    /\ LET r == merge_segments(heap, diarized) IN
          /\ heap' = r.heap
          /\ merged' = r.merged
    /\ snapshot' = Deref(heap, diarized)
    /\ mpc' = "merged"
    /\ UNCHANGED <<diarized, remerged>>
    /\ UNCHANGED <<alignVars, ctxVars, nameVars, pipeVars, applyVars, feedsVars, backfillVars, reprocessVars, simpleVars>>

\* _merge_segments applied to its own output.
CallMergeAgain ==
    /\ mpc = "merged"
    /\ LET r == merge_segments(heap, merged) IN
          /\ heap' = r.heap
          /\ remerged' = r.merged
    /\ mpc' = "remerged"
    /\ UNCHANGED <<diarized, snapshot, merged>>
    /\ UNCHANGED <<alignVars, ctxVars, nameVars, pipeVars, applyVars, feedsVars, backfillVars, reprocessVars, simpleVars>>

MergeInit ==
    /\ heap = <<>>
    /\ diarized = <<>>
    /\ snapshot = <<>>
    /\ merged = <<>>
    /\ remerged = <<>>
    /\ mpc = "collect"

(***************************************************************************)
(* Segment Aligner: speaker_diarizer.py                                    *)
(***************************************************************************)
Max2(a, b) == IF a >= b THEN a ELSE b
Min2(a, b) == IF a <= b THEN a ELSE b

\* speaker_durations is a dict: its items, in insertion order.
DictHas(d, key) == \E i \in DOMAIN d : d[i].key = key
DictIndex(d, key) == CHOOSE i \in DOMAIN d : d[i].key = key
DictGet(d, key, default) == IF DictHas(d, key) THEN d[DictIndex(d, key)].val ELSE default
DictSet(d, key, val) ==
    IF DictHas(d, key)
    THEN [d EXCEPT ![DictIndex(d, key)].val = val]
    ELSE Append(d, [key |-> key, val |-> val])

\* speaker_durations[speaker] = overlap_duration: the sum is lost.
AccumulateOverwrite(speaker_durations, speaker, overlap_duration) ==
    DictSet(speaker_durations, speaker, overlap_duration)

\* speaker_durations[speaker] = speaker_durations.get(speaker, 0) + overlap_duration
Accumulate(speaker_durations, speaker, overlap_duration) ==
    DictSet(speaker_durations, speaker, DictGet(speaker_durations, speaker, 0) + overlap_duration)

\* The for loop of _find_dominant_speaker over the turns.
RECURSIVE DurationsLoop(_, _, _, _)
DurationsLoop(start, end, rest, speaker_durations) ==
    IF rest = <<>> THEN speaker_durations
    ELSE LET dia_seg == Head(rest)
             overlap_start == Max2(start, dia_seg.start)
             overlap_end == Min2(end, dia_seg.end)
         IN IF overlap_start < overlap_end
            THEN DurationsLoop(start, end, Tail(rest),
                     Accumulate(speaker_durations, dia_seg.speaker, overlap_end - overlap_start))
            ELSE DurationsLoop(start, end, Tail(rest), speaker_durations)

\* MaxItem if max returned the last of the greatest items.
MaxItemLast(d) ==
    d[CHOOSE i \in DOMAIN d :
        /\ \A j \in DOMAIN d : d[j].val <= d[i].val
        /\ \A j \in DOMAIN d : j > i => d[j].val < d[i].val]

\* max(items, key=lambda x: x[1]): the first item with the greatest value.
MaxItem(d) ==
    d[CHOOSE i \in DOMAIN d :
        /\ \A j \in DOMAIN d : d[j].val <= d[i].val
        /\ \A j \in DOMAIN d : j < i => d[j].val < d[i].val]

find_dominant_speaker(start, end, diarization) ==
    LET speaker_durations == DurationsLoop(start, end, diarization, <<>>) IN
    IF speaker_durations = <<>> THEN None ELSE MaxItem(speaker_durations).key

\* `speaker or "UNKNOWN"`: None and the empty string are falsy.
OrUnknown(speaker) == IF speaker = None \/ speaker = "" THEN "UNKNOWN" ELSE speaker

merge_with_transcription(transcription, diarization) ==
    [i \in DOMAIN transcription |->
        [start |-> transcription[i].start,
         end |-> transcription[i].end,
         text |-> transcription[i].text,
         speaker |-> OrUnknown(find_dominant_speaker(transcription[i].start,
                                                     transcription[i].end, diarization))]]

\* diarize: one more turn of the diarization, which the sort keeps ordered by start.
AddTurn ==
    /\ apc = "collect"
    /\ Len(diarization_segments) < MaxTurns
    /\ \E st \in Times, en \in Times, sp \in SpeakerIds :
          /\ st < en
          /\ diarization_segments /= <<>> =>
                 diarization_segments[Len(diarization_segments)].start <= st
          /\ diarization_segments' =
                 Append(diarization_segments, [start |-> st, end |-> en, speaker |-> sp])
    /\ UNCHANGED <<transcription_segments, merged_segments, apc>>
    /\ UNCHANGED <<mergeVars, ctxVars, nameVars, pipeVars, applyVars, feedsVars, backfillVars, reprocessVars, simpleVars>>

\* The transcriber: one more transcript segment, in order and not overlapping.
AddTranscriptSegment ==
    /\ apc = "collect"
    /\ Len(transcription_segments) < MaxTranscript
    /\ \E st \in Times, en \in Times, tx \in Texts :
          /\ st <= en
          /\ transcription_segments /= <<>> =>
                 transcription_segments[Len(transcription_segments)].end <= st
          /\ transcription_segments' =
                 Append(transcription_segments, [start |-> st, end |-> en, text |-> tx])
    /\ UNCHANGED <<diarization_segments, merged_segments, apc>>
    /\ UNCHANGED <<mergeVars, ctxVars, nameVars, pipeVars, applyVars, feedsVars, backfillVars, reprocessVars, simpleVars>>

CallMergeWithTranscription ==
    /\ apc = "collect"
    /\ merged_segments' = merge_with_transcription(transcription_segments, diarization_segments)
    /\ apc' = "aligned"
    /\ UNCHANGED <<diarization_segments, transcription_segments>>
    /\ UNCHANGED <<mergeVars, ctxVars, nameVars, pipeVars, applyVars, feedsVars, backfillVars, reprocessVars, simpleVars>>

AlignInit ==
    /\ diarization_segments = <<>>
    /\ transcription_segments = <<>>
    /\ merged_segments = <<>>
    /\ apc = "collect"

(***************************************************************************)
(* Context Sampler: speaker_identifier.py, _build_context_text             *)
(***************************************************************************)
SamplingSpeakers == 6
AggressiveSpeakers == 10
AggressiveCap == 150
NormalCap == 200
InterviewSeconds == 1800
InterviewIntro == 30
MainShowIntro == 20
MainShowTransitions == 15
FallbackIntro == 50

\* list[a:b], with 0 <= a.
Slice(list, a, b) == SubSeq(list, a + 1, Min2(b, Len(list)))
\* list.index(x): the first position holding a value equal to x, from 0.
IndexOf(list, x) == (CHOOSE i \in DOMAIN list :
                        list[i] = x /\ \A j \in DOMAIN list : j < i => list[j] /= x) - 1

IsSpace(c) == c \in {" ", "\t", "\n"}
RECURSIVE LStrip(_)
LStrip(t) == IF t /= <<>> /\ IsSpace(Head(t)) THEN LStrip(Tail(t)) ELSE t
RECURSIVE RStrip(_)
RStrip(t) == IF t /= <<>> /\ IsSpace(t[Len(t)]) THEN RStrip(SubSeq(t, 1, Len(t) - 1)) ELSE t
\* str.strip()
Strip(t) == RStrip(LStrip(t))

\* _format_timestamp: MM:SS, the minutes and the seconds as they are printed.
format_timestamp(seconds) == [minutes |-> seconds \div 60, secs |-> seconds % 60]

\* start <= min(1800, total_duration * 0.4)
InInterview(start, total_duration) ==
    start <= InterviewSeconds /\ 5 * start <= 2 * total_duration

\* The concatenation of parts[lo], ..., parts[hi], halving the range so that a
\* long transcript does not nest the evaluation deeply.
RECURSIVE ConcatAll(_, _, _)
ConcatAll(parts, lo, hi) ==
    IF lo > hi THEN <<>>
    ELSE IF lo = hi THEN parts[lo]
    ELSE LET mid == (lo + hi) \div 2 IN
         ConcatAll(parts, lo, mid) \o ConcatAll(parts, mid + 1, hi)

\* The loops below keep their state in locals (prev_speaker, transition_count,
\* speakers_seen, seen).  Each is written by what the local holds when the loop
\* reaches position i, and the extends are concatenated in loop order.

\* prev_speaker when a loop that started at position `first` reaches position i.
PrevSpeaker(list, first, i) == IF i = first THEN None ELSE list[i - 1].speaker

\* The loop over interview_segments[30:]: a window around every change of speaker.
InterviewTransitions(interview_segments) ==
    LET first == InterviewIntro + 1
        window(i) ==
            IF i >= first
               /\ interview_segments[i].speaker /= PrevSpeaker(interview_segments, first, i)
            THEN LET seg_idx == IndexOf(interview_segments, interview_segments[i]) IN
                 Slice(interview_segments, Max2(0, seg_idx - 1), seg_idx + 2)
            ELSE <<>>
    IN ConcatAll([i \in DOMAIN interview_segments |-> window(i)],
                 1, Len(interview_segments))

\* The loop over main_show_segments[20:]: the same, for the first 15 changes.
MainShowTransitionWindows(main_show_segments) ==
    LET first == MainShowIntro + 1
        changes(i) ==
            i >= first
            /\ main_show_segments[i].speaker /= PrevSpeaker(main_show_segments, first, i)
        \* transition_count at position i: it grows with every change until it is 15.
        transition_count(i) ==
            Min2(MainShowTransitions, Cardinality({j \in first..(i - 1) : changes(j)}))
        window(i) ==
            IF changes(i) /\ transition_count(i) < MainShowTransitions
            THEN LET seg_idx == IndexOf(main_show_segments, main_show_segments[i]) IN
                 Slice(main_show_segments, Max2(0, seg_idx - 1), seg_idx + 2)
            ELSE <<>>
    IN ConcatAll([i \in DOMAIN main_show_segments |-> window(i)],
                 1, Len(main_show_segments))

\* The fallback loop: a window around the first segment of every speaker.
FirstOccurrences(segments) ==
    LET speakers_seen(i) == {segments[j].speaker : j \in 1..(i - 1)}
        window(i) ==
            IF segments[i].speaker \notin speakers_seen(i)
            THEN LET seg_idx == IndexOf(segments, segments[i]) IN
                 Slice(segments, Max2(0, seg_idx - 1), seg_idx + 3)
            ELSE <<>>
    IN ConcatAll([i \in DOMAIN segments |-> window(i)], 1, Len(segments))

\* "Remove duplicates while preserving order", by (start, speaker, text).
Dedupe(sampled) ==
    LET seg_id(i) == <<sampled[i].start, sampled[i].speaker, sampled[i].text>>
        seen(i) == {seg_id(j) : j \in 1..(i - 1)}
    IN ConcatAll([i \in DOMAIN sampled |->
                     IF seg_id(i) \notin seen(i) THEN <<sampled[i]>> ELSE <<>>],
                 1, Len(sampled))

\* The caps the wrong way round.
MaxSegmentsSwapped(speaker_count) ==
    IF speaker_count > AggressiveSpeakers THEN NormalCap ELSE AggressiveCap

\* max_segments = 150 if len(unique_speakers) > 10 else 200
MaxSegments(speaker_count) ==
    IF speaker_count > AggressiveSpeakers THEN AggressiveCap ELSE NormalCap

\* The selection of _build_context_text, lines 66 to 130.
SegmentsToUse(segments) ==
    LET unique_speakers == {segments[i].speaker : i \in DOMAIN segments} IN
    IF Cardinality(unique_speakers) > SamplingSpeakers
    THEN LET max_segments == MaxSegments(Cardinality(unique_speakers))
             total_duration == segments[Len(segments)].start
             IsInterview(seg) == InInterview(seg.start, total_duration)
             IsMainShow(seg) == ~InInterview(seg.start, total_duration)
             interview_segments == SelectSeq(segments, IsInterview)
             main_show_segments == SelectSeq(segments, IsMainShow)
             from_interview ==
                 IF interview_segments /= <<>>
                 THEN Slice(interview_segments, 0, InterviewIntro)
                      \o InterviewTransitions(interview_segments)
                 ELSE <<>>
             from_main_show ==
                 IF main_show_segments /= <<>>
                 THEN Slice(main_show_segments, 0, MainShowIntro)
                      \o MainShowTransitionWindows(main_show_segments)
                 ELSE <<>>
             sampled_segments ==
                 IF interview_segments = <<>> \/ main_show_segments = <<>>
                 THEN Slice(segments, 0, FallbackIntro) \o FirstOccurrences(segments)
                 ELSE from_interview \o from_main_show
         IN Slice(Dedupe(sampled_segments), 0, max_segments)
    ELSE segments

\* A blank text gives a line all the same.
KeepLineAlways(text) == TRUE

\* `if text:` on the stripped text.
KeepLine(text) == text /= <<>>

\* The loop that formats "[MM:SS] speaker: text", lines 132 to 138.
ContextLines(segs) ==
    LET line(i) ==
            LET start_time == format_timestamp(segs[i].start)
                text == Strip(segs[i].text)
            IN IF KeepLine(text)
               THEN <<[time |-> start_time, speaker |-> segs[i].speaker, text |-> text]>>
               ELSE <<>>
    IN ConcatAll([i \in DOMAIN segs |-> line(i)], 1, Len(segs))

\* The text returned is the lines joined by "\n": it is kept as the list of lines.
build_context_text(segments) == ContextLines(SegmentsToUse(segments))

(***************************************************************************)
(* Naming: speaker_identifier.py, and who constructs the identifier        *)
(* A str is a sequence of characters.  A dict is the sequence of its       *)
(* items, in insertion order.                                              *)
(***************************************************************************)
UpperCase == <<"A", "B", "C", "D", "E", "F", "G", "H", "I", "J", "K", "L", "M",
               "N", "O", "P", "Q", "R", "S", "T", "U", "V", "W", "X", "Y", "Z">>
LowerCase == <<"a", "b", "c", "d", "e", "f", "g", "h", "i", "j", "k", "l", "m",
               "n", "o", "p", "q", "r", "s", "t", "u", "v", "w", "x", "y", "z">>
DigitChars == <<"0", "1", "2", "3", "4", "5", "6", "7", "8", "9">>
\* The characters of the model in code point order.
CodePoints == <<"\t", "\n", " ">> \o DigitChars \o UpperCase \o <<"\\", "_">> \o LowerCase
Ord(c) == CHOOSE i \in DOMAIN CodePoints : CodePoints[i] = c
IsUpper(c) == \E i \in DOMAIN UpperCase : UpperCase[i] = c
Lower(c) == IF IsUpper(c) THEN LowerCase[CHOOSE i \in DOMAIN UpperCase : UpperCase[i] = c] ELSE c
LowerStr(t) == [i \in DOMAIN t |-> Lower(t[i])]

\* a < b on str: by code point, a proper prefix first.
StrLess(a, b) ==
    \E k \in 1..(Min2(Len(a), Len(b)) + 1) :
        /\ \A j \in 1..(k - 1) : a[j] = b[j]
        /\ \/ k > Len(a) /\ k <= Len(b)
           \/ k <= Len(a) /\ k <= Len(b) /\ Ord(a[k]) < Ord(b[k])

\* sorted(set of str), greatest first.
RECURSIVE SortedDescending(_)
SortedDescending(S) ==
    IF S = {} THEN <<>>
    ELSE LET m == CHOOSE x \in S : \A y \in S : ~StrLess(x, y) IN
         <<m>> \o SortedDescending(S \ {m})

\* sorted(set of str)
RECURSIVE Sorted(_)
Sorted(S) ==
    IF S = {} THEN <<>>
    ELSE LET m == CHOOSE x \in S : \A y \in S : ~StrLess(y, x) IN
         <<m>> \o Sorted(S \ {m})

\* str(i), i >= 0
RECURSIVE IntToStr(_)
IntToStr(i) ==
    IF i < 10 THEN <<DigitChars[i + 1]>>
    ELSE IntToStr(i \div 10) \o <<DigitChars[(i % 10) + 1]>>

\* sub in s
Contains(s, sub) ==
    \E i \in 1..(Len(s) - Len(sub) + 1) : SubSeq(s, i, i + Len(sub) - 1) = sub

Absent == <<"<absent>">>

SPEAKER_ == <<"S", "P", "E", "A", "K", "E", "R", "_">>
Speaker_ == <<"S", "p", "e", "a", "k", "e", "r", "_">>

\* pattern.sub compiles a replacement that holds a backslash as a template and
\* raises re.error on an escape it does not know, before it looks for a match.
BadTemplate(repl) ==
    \E i \in DOMAIN repl :
        /\ repl[i] = "\\"
        /\ (i = 1 \/ repl[i - 1] /= "\\")
        /\ (i = Len(repl) \/ repl[i + 1] \notin {"\\", "n", "t", "r", "a", "b", "f", "v", "g"})

\* re.compile(re.escape(old), re.IGNORECASE).sub(new, text), for a replacement
\* without backslashes: every occurrence, leftmost first, none overlapping.
RECURSIVE ReSubIgnoreCase(_, _, _)
ReSubIgnoreCase(old, new, text) ==
    IF old = <<>> \/ Len(text) < Len(old) THEN text
    ELSE IF LowerStr(SubSeq(text, 1, Len(old))) = LowerStr(old)
         THEN new \o ReSubIgnoreCase(old, new, SubSeq(text, Len(old) + 1, Len(text)))
         ELSE <<Head(text)>> \o ReSubIgnoreCase(old, new, Tail(text))

\* The inner loop of _apply_speaker_mappings over mappings.items().
RECURSIVE SubstituteAll(_, _)
SubstituteAll(items, updated_text) ==
    IF items = <<>> THEN updated_text
    ELSE SubstituteAll(Tail(items),
                       ReSubIgnoreCase(Head(items).key, Head(items).val, updated_text))

\* ApplyToSegment if it stamped original_speaker_id on every segment, mapped
\* or not.
ApplyToSegmentAlwaysStamps(seg, mappings) ==
    LET renamed == [seg EXCEPT !.speaker = DictGet(mappings, seg.speaker, seg.speaker),
                               !.original_speaker_id = seg.speaker]
    IN [renamed EXCEPT !.text = SubstituteAll(mappings, seg.text)]

\* One iteration of the loop of _apply_speaker_mappings over the segments.
ApplyToSegment(seg, mappings) ==
    LET renamed == IF DictHas(mappings, seg.speaker)
                   THEN [seg EXCEPT !.speaker = DictGet(mappings, seg.speaker, None),
                                    !.original_speaker_id = seg.speaker]
                   ELSE seg
    IN [renamed EXCEPT !.text = SubstituteAll(mappings, seg.text)]

\* SpeakerIdentifier._apply_speaker_mappings: [exc, val].
apply_speaker_mappings(segments, mappings) ==
    IF segments /= <<>> /\ \E i \in DOMAIN mappings : BadTemplate(mappings[i].val)
    THEN [exc |-> TRUE, val |-> <<>>]
    ELSE [exc |-> FALSE, val |-> [i \in DOMAIN segments |-> ApplyToSegment(segments[i], mappings)]]

\* MockSpeakerIdentifier._apply_speaker_mappings: the speaker field only.
Mock_apply_speaker_mappings(segments, mappings) ==
    [i \in DOMAIN segments |->
        IF DictHas(mappings, segments[i].speaker)
        THEN [segments[i] EXCEPT !.speaker = DictGet(mappings, segments[i].speaker, None),
                                 !.original_speaker_id = segments[i].speaker]
        ELSE segments[i]]

\* The loop of _parse_speaker_response over mappings.items().
RECURSIVE ValidateItems(_, _)
ValidateItems(items, validated_mappings) ==
    IF items = <<>> THEN validated_mappings
    ELSE LET speaker_id == Head(items).key
             name == Head(items).val
         IN IF name.isstr /\ Strip(name.str) /= <<>> /\ Contains(speaker_id, SPEAKER_)
            THEN ValidateItems(Tail(items), DictSet(validated_mappings, speaker_id, Strip(name.str)))
            ELSE ValidateItems(Tail(items), validated_mappings)

\* _parse_speaker_response: [exc, val].  re.search and json.loads are taken by
\* what they return: no JSON block, a block json.loads rejects, or the dict loaded.
parse_speaker_response(response) ==
    CASE response.kind = "none" -> [exc |-> TRUE, val |-> <<>>]
      [] response.kind = "no_json" -> [exc |-> FALSE, val |-> <<>>]
      [] response.kind = "bad_json" -> [exc |-> FALSE, val |-> <<>>]
      [] response.kind = "json" -> [exc |-> FALSE, val |-> ValidateItems(response.items, <<>>)]

\* The mapping MockSpeakerIdentifier.identify_speakers builds:
\* {speaker: f"Speaker_{i+1}" for i, speaker in enumerate(sorted(unique_speakers))}
Mock_mappings(unique_speakers) ==
    LET sorted == Sorted(unique_speakers) IN
    [i \in DOMAIN sorted |-> [key |-> sorted[i], val |-> Speaker_ \o IntToStr(i)]]

\* MockSpeakerIdentifier.identify_speakers
Mock_identify_speakers(segments) ==
    LET unique_speakers == {segments[i].speaker : i \in DOMAIN segments}
        mappings == Mock_mappings(unique_speakers)
    IN [raised |-> FALSE,
        segments |-> Mock_apply_speaker_mappings(segments, mappings),
        mappings |-> mappings]

\* A failed query answers with the Speaker_N mapping of the mock, for the
\* speakers of the context.
query_llm_falls_back(context_text, response, prompt_error) ==
    IF prompt_error THEN [exc |-> TRUE, val |-> <<>>]
    ELSE IF response.kind = "raises" \/ parse_speaker_response(response).exc
              \/ response.kind \in {"no_json", "bad_json"}
         THEN [exc |-> FALSE,
               val |-> Mock_mappings({context_text[i].speaker : i \in DOMAIN context_text})]
         ELSE [exc |-> FALSE, val |-> parse_speaker_response(response).val]

\* _query_llm_for_speakers: [exc, val].  Building the prompt from the metadata is
\* outside its try; the call and the parsing are inside, and any exception there
\* gives {}.  The oracle is free in what it answers to a context.
query_llm_for_speakers(context_text, response, prompt_error) ==
    IF prompt_error THEN [exc |-> TRUE, val |-> <<>>]
    ELSE IF response.kind = "raises" \/ parse_speaker_response(response).exc
         THEN [exc |-> FALSE, val |-> <<>>]
         ELSE [exc |-> FALSE, val |-> parse_speaker_response(response).val]

\* SpeakerIdentifier.identify_speakers: everything is inside one try.
identify_speakers(segments, response, prompt_error) ==
    LET on_exception == [raised |-> FALSE, segments |-> segments, mappings |-> <<>>]
        context_text == build_context_text(segments)
        q == query_llm_for_speakers(context_text, response, prompt_error)
    IN IF q.exc THEN on_exception
       ELSE LET a == apply_speaker_mappings(segments, q.val) IN
            IF a.exc THEN on_exception
            ELSE [raised |-> FALSE, segments |-> a.val, mappings |-> q.val]

Id1 == SPEAKER_ \o <<"1">>
Id2 == SPEAKER_ \o <<"2">>
Id10 == SPEAKER_ \o <<"1", "0">>
NameSpeakerIds == {Id1, Id2, Id10}
\* "hi" and "speaker_10 SPEAKER_2"
NameTexts == {<<"h", "i">>, LowerStr(Id10) \o <<" ">> \o Id2}

JStr(t) == [isstr |-> TRUE, str |-> t]
JNumber == [isstr |-> FALSE, str |-> <<>>]
Jane == <<"J", "a", "n", "e">>
Bob == <<"B", "o", "b">>
Item(k, v) == [key |-> k, val |-> v]
\* The dicts json.loads may return for the oracle's answer.
OracleDicts ==
    { <<>>,
      <<Item(Id1, JStr(Jane))>>,
      <<Item(Id1, JStr(<<" ">> \o Jane \o <<" ">>)), Item(Id10, JStr(Bob))>>,
      <<Item(Id10, JStr(Bob)), Item(Id1, JStr(Jane))>>,
      <<Item(Id1, JNumber), Item(Id2, JStr(<<" ", " ">>))>>,
      <<Item(<<"h", "o", "s", "t">>, JStr(Jane)), Item(Id2, JStr(Bob))>>,
      <<Item(Id1, JStr(Id2)), Item(Id2, JStr(Bob))>>,
      <<Item(Id1, JStr(<<"A", "\\", "q">>))>>,
      <<Item(SPEAKER_ \o <<"9">>, JStr(Jane))>>,
      <<Item(<<"x">> \o SPEAKER_, JStr(Bob))>> }
OracleResponses ==
    {[kind |-> k, items |-> <<>>] : k \in {"raises", "none", "no_json", "bad_json"}}
    \cup {[kind |-> "json", items |-> d] : d \in OracleDicts}
OracleFailed(response) == response.kind \in {"raises", "none", "no_json", "bad_json"}

\* TranscriptionPipeline.__init__ and TranscriptReprocessor.__init__: the
\* identifier is the oracle-backed one only with an API key.
Construct ==
    /\ npc = "init"
    /\ \E key \in {"", "sk-key"}, c \in {"process_episode", "reprocess_episode"} :
          /\ api_key' = key
          /\ caller' = c
          /\ speaker_identifier' = IF key /= "" THEN "SpeakerIdentifier"
                                   ELSE "MockSpeakerIdentifier"
    /\ npc' = "collect"
    /\ UNCHANGED <<diarized_segments, oracle_response, llm_segments, speaker_mappings,
                   identify_raised, run_outcome>>
    /\ UNCHANGED <<mergeVars, alignVars, ctxVars, pipeVars, applyVars, feedsVars, backfillVars, reprocessVars, simpleVars>>

\* The diarized segments of the episode, one more of them.
AddNameSegment ==
    /\ npc = "collect"
    /\ Len(diarized_segments) < MaxNameSegs
    /\ \E sp \in NameSpeakerIds, tx \in NameTexts :
          diarized_segments' =
              Append(diarized_segments,
                     [start |-> 10 * Len(diarized_segments),
                      end |-> 10 * Len(diarized_segments) + 5,
                      text |-> tx, speaker |-> sp, original_speaker_id |-> Absent])
    /\ UNCHANGED <<api_key, speaker_identifier, caller, oracle_response, llm_segments,
                   speaker_mappings, identify_raised, run_outcome, npc>>
    /\ UNCHANGED <<mergeVars, alignVars, ctxVars, pipeVars, applyVars, feedsVars, backfillVars, reprocessVars, simpleVars>>

\* llm_segments, speaker_mappings = self.speaker_identifier.identify_speakers(...)
\* with the oracle-backed identifier; reprocess_episode passes the metadata it loaded.
CallIdentifySpeakers ==
    /\ npc = "collect"
    /\ speaker_identifier = "SpeakerIdentifier"
    /\ \E response \in OracleResponses, prompt_error \in BOOLEAN :
          /\ prompt_error => caller = "reprocess_episode"
          /\ LET r == identify_speakers(diarized_segments, response, prompt_error) IN
                /\ llm_segments' = r.segments
                /\ speaker_mappings' = r.mappings
                /\ identify_raised' = r.raised
          /\ oracle_response' = [response EXCEPT !.kind = IF prompt_error THEN "prompt_error" ELSE @]
    /\ npc' = "identified"
    /\ UNCHANGED <<api_key, speaker_identifier, caller, diarized_segments, run_outcome>>
    /\ UNCHANGED <<mergeVars, alignVars, ctxVars, pipeVars, applyVars, feedsVars, backfillVars, reprocessVars, simpleVars>>

\* The same call with the mock identifier.
CallMockIdentifySpeakers ==
    /\ npc = "collect"
    /\ speaker_identifier = "MockSpeakerIdentifier"
    /\ LET r == Mock_identify_speakers(diarized_segments) IN
          /\ llm_segments' = r.segments
          /\ speaker_mappings' = r.mappings
          /\ identify_raised' = r.raised
    /\ oracle_response' = [kind |-> "not_called", items |-> <<>>]
    /\ npc' = "identified"
    /\ UNCHANGED <<api_key, speaker_identifier, caller, diarized_segments, run_outcome>>
    /\ UNCHANGED <<mergeVars, alignVars, ctxVars, pipeVars, applyVars, feedsVars, backfillVars, reprocessVars, simpleVars>>

\* The caller's try block after the call: an exception of identify_speakers
\* would end it, otherwise the export follows and the run succeeds unless the
\* export raises.
CallerContinues ==
    /\ npc = "identified"
    /\ \E export_raises \in BOOLEAN :
          run_outcome' = IF identify_raised THEN "failed_in_naming"
                         ELSE IF export_raises THEN "failed_in_export"
                         ELSE "success"
    /\ npc' = "done"
    /\ UNCHANGED <<api_key, speaker_identifier, caller, diarized_segments, oracle_response,
                   llm_segments, speaker_mappings, identify_raised>>
    /\ UNCHANGED <<mergeVars, alignVars, ctxVars, pipeVars, applyVars, feedsVars, backfillVars, reprocessVars, simpleVars>>

NameInit ==
    /\ api_key = None
    /\ speaker_identifier = None
    /\ caller = None
    /\ diarized_segments = <<>>
    /\ oracle_response = [kind |-> "not_called", items |-> <<>>]
    /\ llm_segments = <<>>
    /\ speaker_mappings = <<>>
    /\ identify_raised = FALSE
    /\ run_outcome = None
    /\ npc = "init"

NextNaming ==
    \/ Construct \/ AddNameSegment \/ CallIdentifySpeakers \/ CallMockIdentifySpeakers
    \/ CallerContinues

CtxTimes == {0, 59, 61, 125}
CtxSpeakers == {"SPEAKER_00", "SPEAKER_01"}
CtxTexts == {<<" ">>, <<"a">>, <<" ", "b">>}

SpeakerNames == <<"SPEAKER_00", "SPEAKER_01", "SPEAKER_02", "SPEAKER_03", "SPEAKER_04",
                  "SPEAKER_05", "SPEAKER_06", "SPEAKER_07", "SPEAKER_08", "SPEAKER_09",
                  "SPEAKER_10", "SPEAKER_11">>

\* A long show: n segments, one every `step` seconds, k speakers taking turns of
\* `run` segments each.
LongTranscript(n, k, step, run) ==
    [i \in 1..n |-> [start |-> (i - 1) * step,
                     end |-> (i - 1) * step + 1,
                     text |-> <<"a">>,
                     speaker |-> SpeakerNames[(((i - 1) \div run) % k) + 1]]]
\* Six segments that start at the same second, the last one equal to the
\* second one in every field.
RepeatedSegments ==
    LET seg(sp, tx) == [start |-> 40, end |-> 40, text |-> <<tx>>, speaker |-> sp] IN
    <<seg(SpeakerNames[1], "o"), seg(SpeakerNames[1], "p"), seg(SpeakerNames[1], "q"),
      seg(SpeakerNames[1], "r"), seg(SpeakerNames[2], "s"), seg(SpeakerNames[1], "p")>>
\* A long transcript, sorted by start, that holds them at its places 41 to 46.
TranscriptWithRepeat ==
    [i \in 1..230 |-> IF i \in 41..46 THEN RepeatedSegments[i - 40]
                      ELSE LongTranscript(230, 7, 1, 3)[i]]
LongTranscripts ==
    {LongTranscript(n, k, step, run) :
        n \in {8, 60, 230, 420}, k \in {5, 7, 11}, step \in {0, 1, 20}, run \in {1, 3}}
    \cup {TranscriptWithRepeat}

\* The diarized segments of an episode, one more of them.
AddCtxSegment ==
    /\ cpc = "collect"
    /\ Len(ctx_segments) < MaxCtxSegs
    /\ \E st \in CtxTimes, sp \in CtxSpeakers, tx \in CtxTexts :
          /\ ctx_segments /= <<>> => ctx_segments[Len(ctx_segments)].start <= st
          /\ ctx_segments' = Append(ctx_segments,
                                    [start |-> st, end |-> st + 1, text |-> tx, speaker |-> sp])
    /\ UNCHANGED <<segments_to_use, context_lines, cpc>>
    /\ UNCHANGED <<mergeVars, alignVars, nameVars, pipeVars, applyVars, feedsVars, backfillVars, reprocessVars, simpleVars>>

\* The diarized segments of a long episode with many speakers.
LoadLongTranscript ==
    /\ cpc = "collect"
    /\ ctx_segments = <<>>
    /\ \E t \in LongTranscripts : ctx_segments' = t
    /\ cpc' = "loaded"
    /\ UNCHANGED <<segments_to_use, context_lines>>
    /\ UNCHANGED <<mergeVars, alignVars, nameVars, pipeVars, applyVars, feedsVars, backfillVars, reprocessVars, simpleVars>>

\* context_text = self._build_context_text(diarized_segments)
CallBuildContextText ==
    /\ cpc \in {"collect", "loaded"}
    /\ segments_to_use' = SegmentsToUse(ctx_segments)
    /\ context_lines' = build_context_text(ctx_segments)
    /\ cpc' = "built"
    /\ UNCHANGED ctx_segments
    /\ UNCHANGED <<mergeVars, alignVars, nameVars, pipeVars, applyVars, feedsVars, backfillVars, reprocessVars, simpleVars>>

CtxInit ==
    /\ ctx_segments = <<>>
    /\ segments_to_use = <<>>
    /\ context_lines = <<>>
    /\ cpc = "collect"

NextContext == AddCtxSegment \/ LoadLongTranscript \/ CallBuildContextText
(***************************************************************************)
(* _apply_speaker_mappings on its own, of either identifier class, with    *)
(* the segment dicts held by reference.                                    *)
(***************************************************************************)
\* The loop of _apply_speaker_mappings: updated_seg = seg.copy(), the updates
\* of the copy, updated_segments.append(updated_seg).
RECURSIVE ApplyLoop(_, _, _, _, _)
ApplyLoop(h, rest, mappings, class, updated_segments) ==
    IF rest = <<>> THEN [exc |-> FALSE, heap |-> h, refs |-> updated_segments]
    ELSE LET seg == h[Head(rest)]
             copy == DictCopy(h, Head(rest))
             updated_seg == IF class = "SpeakerIdentifier"
                            THEN ApplyToSegment(seg, mappings)
                            ELSE Mock_apply_speaker_mappings(<<seg>>, mappings)[1]
         IN ApplyLoop([copy.heap EXCEPT ![copy.ref] = updated_seg], Tail(rest),
                      mappings, class, Append(updated_segments, copy.ref))

\* _apply_speaker_mappings of the given class on a list of dict objects:
\* pattern.sub raises for a replacement template it rejects.
ApplyOnObjects(h, refs, mappings, class) ==
    IF class = "SpeakerIdentifier" /\ apply_speaker_mappings(Deref(h, refs), mappings).exc
    THEN [exc |-> TRUE, heap |-> h, refs |-> <<>>]
    ELSE ApplyLoop(h, refs, mappings, class, <<>>)

\* The mappings the two identifiers produce: what _parse_speaker_response
\* validates, and what the mock builds for the speakers of an episode.
ProducedMappings ==
    {ValidateItems(d, <<>>) : d \in OracleDicts}
    \cup {Mock_mappings(S) : S \in SUBSET NameSpeakerIds}

\* A segment dict of the episode, one more of them.
AddApplySegment ==
    /\ xpc = "collect"
    /\ Len(apply_refs) < MaxApplySegs
    /\ \E sp \in NameSpeakerIds, tx \in NameTexts :
          /\ apply_heap' = Append(apply_heap,
                                  [start |-> 10 * Len(apply_refs),
                                   end |-> 10 * Len(apply_refs) + 5,
                                   text |-> tx, speaker |-> sp,
                                   original_speaker_id |-> Absent])
          /\ apply_refs' = Append(apply_refs, Len(apply_heap) + 1)
    /\ UNCHANGED <<apply_snapshot, apply_class, apply_mapping, applied, reapplied, xpc>>
    /\ UNCHANGED <<mergeVars, alignVars, ctxVars, nameVars, pipeVars, feedsVars, backfillVars, reprocessVars, simpleVars>>

\* updated_segments = self._apply_speaker_mappings(diarized_segments, speaker_mappings)
CallApply ==
    /\ xpc = "collect"
    /\ \E class \in {"SpeakerIdentifier", "MockSpeakerIdentifier"},
          mappings \in ProducedMappings :
          LET r == ApplyOnObjects(apply_heap, apply_refs, mappings, class) IN
          /\ apply_class' = class
          /\ apply_mapping' = mappings
          /\ apply_snapshot' = Deref(apply_heap, apply_refs)
          /\ apply_heap' = r.heap
          /\ applied' = [exc |-> r.exc, refs |-> r.refs]
    /\ xpc' = "applied"
    /\ UNCHANGED <<apply_refs, reapplied>>
    /\ UNCHANGED <<mergeVars, alignVars, ctxVars, nameVars, pipeVars, feedsVars, backfillVars, reprocessVars, simpleVars>>

\* The same mapping applied to the list the first call returned.
CallApplyAgain ==
    /\ xpc = "applied"
    /\ ~applied.exc
    /\ LET r == ApplyOnObjects(apply_heap, applied.refs, apply_mapping, apply_class) IN
          /\ apply_heap' = r.heap
          /\ reapplied' = [exc |-> r.exc, refs |-> r.refs]
    /\ xpc' = "reapplied"
    /\ UNCHANGED <<apply_refs, apply_snapshot, apply_class, apply_mapping, applied>>
    /\ UNCHANGED <<mergeVars, alignVars, ctxVars, nameVars, pipeVars, feedsVars, backfillVars, reprocessVars, simpleVars>>

ApplyInit ==
    /\ apply_heap = <<>>
    /\ apply_refs = <<>>
    /\ apply_snapshot = <<>>
    /\ apply_class = None
    /\ apply_mapping = <<>>
    /\ applied = [exc |-> FALSE, refs |-> <<>>]
    /\ reapplied = [exc |-> FALSE, refs |-> <<>>]
    /\ xpc = "collect"

NextApply == AddApplySegment \/ CallApply \/ CallApplyAgain

(***************************************************************************)
(* The orchestrator: TranscriptionPipeline.process_feed and                *)
(* process_episode, with the files of the output tree.                     *)
(***************************************************************************)
NoStr == <<None>>
\* a or b, on Optional[str]
OrElse(a, b) == IF a = NoStr \/ a = <<>> THEN b ELSE a

BaseDir == "transcripts"
OverrideDir == "custom_out"
DownloadDir == "downloads"
max_workers == 2
SanitizeLimit == 100
DownloadTitleLimit == 50

SeqToSet(s) == {s[i] : i \in DOMAIN s}
AlnumChars == SeqToSet(UpperCase) \cup SeqToSet(LowerCase) \cup SeqToSet(DigitChars)
safe_chars == AlnumChars \cup {"-", "_"}

\* TranscriptExporter._sanitize_filename
sanitize_filename(filename) ==
    LET sanitized == [i \in DOMAIN filename |->
                         IF filename[i] \in safe_chars THEN filename[i] ELSE "_"]
    IN SubSeq(sanitized, 1, Min2(Len(sanitized), SanitizeLimit))

Unknown_Podcast == <<"U", "n", "k", "n", "o", "w", "n", "_", "P", "o", "d", "c", "a", "s", "t">>
Raw == <<"_", "r", "a", "w">>
Diarized == <<"_", "d", "i", "a", "r", "i", "z", "e", "d">>
Enhanced == <<"_", "e", "n", "h", "a", "n", "c", "e", "d">>
Metadata == <<"_", "m", "e", "t", "a", "d", "a", "t", "a">>
Txt == <<".", "t", "x", "t">>
Json == <<".", "j", "s", "o", "n">>
Srt == <<".", "s", "r", "t">>
Mp3 == <<".", "m", "p", "3">>

\* episode_dir = base / safe_podcast_name / safe_title
episode_dir(base, episode) ==
    [root |-> base,
     podcast |-> sanitize_filename(OrElse(episode.podcast_name, Unknown_Podcast)),
     title |-> sanitize_filename(episode.title)]

\* filename_prefix = episode.episode_identifier or safe_title
filename_prefix(episode) ==
    OrElse(episode.episode_identifier, sanitize_filename(episode.title))

FileIn(dir, name) == [root |-> dir.root, podcast |-> dir.podcast, title |-> dir.title, name |-> name]

\* The check forgets the enhanced artifact.
transcription_files_without_enhanced(prefix) ==
    <<prefix \o Raw \o Json, prefix \o Diarized \o Json>>

\* The files _episode_already_transcribed looks for.
transcription_files(prefix) ==
    <<prefix \o Raw \o Json, prefix \o Diarized \o Json, prefix \o Enhanced \o Json>>

\* TranscriptionPipeline._episode_already_transcribed, on the files present.
episode_already_transcribed(present, episode, dir_override) ==
    LET base_output_dir == IF dir_override /= None THEN dir_override ELSE BaseDir
        dir == episode_dir(base_output_dir, episode)
        names == transcription_files(filename_prefix(episode))
    IN \E i \in DOMAIN names : FileIn(dir, names[i]) \in present

\* The files export_all_formats writes, in the order it writes them: always
\* under the exporter's own base directory.
export_files(episode) ==
    LET dir == episode_dir(BaseDir, episode)
        prefix == filename_prefix(episode)
        names == <<prefix \o Raw \o Txt, prefix \o Raw \o Json, prefix \o Raw \o Srt,
                   prefix \o Diarized \o Txt, prefix \o Diarized \o Json, prefix \o Diarized \o Srt,
                   prefix \o Enhanced \o Txt, prefix \o Enhanced \o Json, prefix \o Enhanced \o Srt,
                   prefix \o Metadata \o Json>>
    IN [i \in DOMAIN names |-> FileIn(dir, names[i])]

\* RSSParser.download_audio: where the audio goes.
KeepInTitle(c) == c \in AlnumChars \cup {" ", "-", "_"}
audio_file(episode, dir_override) ==
    LET kept == Strip(SelectSeq(episode.title, KeepInTitle))
        underscored == [i \in DOMAIN kept |-> IF kept[i] = " " THEN "_" ELSE kept[i]]
        safe_title == SubSeq(underscored, 1, Min2(Len(underscored), DownloadTitleLimit))
    IN [root |-> IF dir_override /= None THEN dir_override ELSE DownloadDir,
        name |-> safe_title \o Mp3]

\* The exception classes process_episode lets out.
EpisodeExceptions == {"RuntimeError", "TranscriptionError", "OSError"}
\* The loop catches the failed download only.
except_RuntimeError(exc) == exc = "RuntimeError"
\* except Exception as e: in process_feed's collection loop
except_Exception(exc) == exc \in EpisodeExceptions

\* The entries of a feed: two titles that sanitize to the same directory, and
\* one with an identifier of its own.
\* str.upper() of one character.
Upper(c) ==
    IF \E i \in DOMAIN LowerCase : LowerCase[i] = c
    THEN UpperCase[CHOOSE i \in DOMAIN LowerCase : LowerCase[i] = c]
    ELSE c

\* How many characters from position i on are whitespace, or digits.
RECURSIVE SpaceRun(_, _)
SpaceRun(t, i) == IF i <= Len(t) /\ IsSpace(t[i]) THEN 1 + SpaceRun(t, i + 1) ELSE 0
RECURSIVE DigitRun(_, _)
DigitRun(t, i) ==
    IF i <= Len(t) /\ t[i] \in SeqToSet(DigitChars) THEN 1 + DigitRun(t, i + 1) ELSE 0

\* The length of the match of <prefix>\s*\d+ (or <prefix>\d+) at position i,
\* letter case ignored; 0 for no match.
PatternAt(t, i, prefix, spaces) ==
    LET j == i + Len(prefix)
        s == IF spaces THEN SpaceRun(t, j) ELSE 0
        d == DigitRun(t, j + s)
    IN IF j - 1 <= Len(t) /\ LowerStr(SubSeq(t, i, j - 1)) = LowerStr(prefix) /\ d >= 1
       THEN Len(prefix) + s + d
       ELSE 0

\* re.search(pattern, episode_title, re.IGNORECASE).group(1), NoStr for no match.
SearchPattern(t, prefix, spaces) ==
    IF \E i \in DOMAIN t : PatternAt(t, i, prefix, spaces) > 0
    THEN LET i == CHOOSE k \in DOMAIN t :
                      /\ PatternAt(t, k, prefix, spaces) > 0
                      /\ \A m \in 1..(k - 1) : PatternAt(t, m, prefix, spaces) = 0
         IN SubSeq(t, i, i + PatternAt(t, i, prefix, spaces) - 1)
    ELSE NoStr

\* episode_title.split()
RECURSIVE SplitWords(_)
SplitWords(t) ==
    LET rest == LStrip(t)
        n == IF \E i \in DOMAIN rest : IsSpace(rest[i])
             THEN (CHOOSE i \in DOMAIN rest :
                       IsSpace(rest[i]) /\ \A m \in 1..(i - 1) : ~IsSpace(rest[m])) - 1
             ELSE Len(rest)
    IN IF rest = <<>> THEN <<>>
       ELSE <<SubSeq(rest, 1, n)>> \o SplitWords(SubSeq(rest, n + 1, Len(rest)))

\* '_'.join(words)
RECURSIVE JoinUnderscore(_)
JoinUnderscore(words) ==
    IF words = <<>> THEN <<>>
    ELSE IF Len(words) = 1 THEN words[1]
    ELSE words[1] \o <<"_">> \o JoinUnderscore(Tail(words))

IsWordChar(c) == c \in AlnumChars \cup {"_"}
Unknown == <<"U", "n", "k", "n", "o", "w", "n">>

\* RSSParser._extract_episode_identifier: the first pattern that matches,
\* blanks to underscores and upper case; else the first three words.
extract_episode_identifier(episode_title) ==
    LET patterns == << <<<<"S", "N">>, TRUE>>, <<<<"E", "P">>, TRUE>>,
                       <<<<"#">>, FALSE>>, <<<<>>, FALSE>> >>
        hit(k) == SearchPattern(episode_title, patterns[k][1], patterns[k][2])
        words == SplitWords(episode_title)
        first_words == SubSeq(words, 1, Min2(3, Len(words)))
        safe_words == [k \in DOMAIN first_words |-> SelectSeq(first_words[k], IsWordChar)]
    IN IF \E k \in DOMAIN patterns : hit(k) /= NoStr
       THEN LET k == CHOOSE k \in DOMAIN patterns :
                         hit(k) /= NoStr /\ \A m \in 1..(k - 1) : hit(m) = NoStr
                match == hit(k)
            IN [c \in DOMAIN match |-> IF match[c] = " " THEN "_" ELSE Upper(match[c])]
       ELSE IF safe_words /= <<>> THEN JoinUnderscore(safe_words) ELSE Unknown

\* The titles of the entries of a feed, and the episodes parse_feed makes of
\* them.
EpisodeTitles ==
    { <<"e", "p", " ", "1", "/", "b">>,
      <<"e", "p", " ", "1", "_", "b">>,
      <<"c", " ">> }
EpisodeKinds ==
    {[title |-> t, episode_identifier |-> extract_episode_identifier(t)] : t \in EpisodeTitles}
PodcastNames == {NoStr, <<"P", "!">>}
Feeds ==
    UNION {{[i \in 1..n |-> [title |-> ks[i].title, podcast_name |-> pn,
                             episode_identifier |-> ks[i].episode_identifier]] :
                ks \in {f \in [1..n -> EpisodeKinds] : \A i, j \in 1..n : f[i] = f[j] => i = j},
                pn \in PodcastNames} : n \in 0..MaxEpisodes}
\* What an earlier run may have left in the output trees.
LeftoverNames(prefix) ==
    {prefix \o Raw \o Json, prefix \o Diarized \o Json, prefix \o Enhanced \o Json,
     prefix \o Raw \o Txt}
Leftovers(feed) ==
    UNION {{FileIn(episode_dir(root, feed[i]), name) :
                root \in {BaseDir, OverrideDir}, name \in LeftoverNames(filename_prefix(feed[i]))} :
           i \in DOMAIN feed}
RECURSIVE SubsetsUpTo(_, _)
SubsetsUpTo(S, k) ==
    IF k = 0 THEN {{}}
    ELSE SubsetsUpTo(S, k - 1) \cup {s \cup {x} : s \in SubsetsUpTo(S, k - 1), x \in S}

Running == {i \in DOMAIN ep_pc : ep_pc[i] \in {"download", "transcribe", "name", "export"}}

\* process_feed up to the pool: parse_feed gives the episodes; with none of
\* them it returns at once.
StartProcessFeed ==
    /\ feed_pc = "idle"
    /\ \E feed \in Feeds, dir_override \in {None, OverrideDir} :
       \E left \in SubsetsUpTo(Leftovers(feed), MaxLeftovers) :
          /\ episodes' = feed
          /\ output_dir' = dir_override
          /\ files' = left
          /\ ep_pc' = [i \in DOMAIN feed |-> "unsubmitted"]
          /\ outcome' = [i \in DOMAIN feed |-> "pending"]
          /\ work' = [i \in DOMAIN feed |-> <<>>]
          /\ files_at_start' = [i \in DOMAIN feed |-> {}]
          /\ written' = [i \in DOMAIN feed |-> {}]
          /\ feed_pc' = IF feed = <<>> THEN "returned" ELSE "submitting"
    /\ UNCHANGED <<audio_files, collected, error_log>>
    /\ UNCHANGED <<mergeVars, alignVars, ctxVars, nameVars, applyVars, feedsVars, backfillVars, reprocessVars, simpleVars>>

\* future = executor.submit(self.process_episode, episode, output_dir)
Submit ==
    /\ feed_pc = "submitting"
    /\ \E i \in DOMAIN episodes :
          /\ ep_pc[i] = "unsubmitted"
          /\ \A j \in 1..(i - 1) : ep_pc[j] /= "unsubmitted"
          /\ ep_pc' = [ep_pc EXCEPT ![i] = "queued"]
          /\ feed_pc' = IF i = Len(episodes) THEN "collecting" ELSE "submitting"
    /\ UNCHANGED <<output_dir, episodes, outcome, files, audio_files, work, files_at_start,
                   written, collected, error_log>>
    /\ UNCHANGED <<mergeVars, alignVars, ctxVars, nameVars, applyVars, feedsVars, backfillVars, reprocessVars, simpleVars>>

\* A worker of the pool takes the oldest queued episode and enters
\* process_episode: the check for existing artifacts comes first.
StartEpisode(i) ==
    /\ i \in DOMAIN episodes
    /\ ep_pc[i] = "queued"
    /\ \A j \in 1..(i - 1) : ep_pc[j] /= "queued"
    /\ Cardinality(Running) < max_workers
    /\ files_at_start' = [files_at_start EXCEPT ![i] = files]
    /\ IF episode_already_transcribed(files, episodes[i], output_dir)
       THEN /\ ep_pc' = [ep_pc EXCEPT ![i] = "done"]
            /\ outcome' = [outcome EXCEPT ![i] = "skipped"]
       ELSE /\ ep_pc' = [ep_pc EXCEPT ![i] = "download"]
            /\ UNCHANGED outcome
    /\ UNCHANGED <<feed_pc, output_dir, episodes, files, audio_files, work, written,
                   collected, error_log>>
    /\ UNCHANGED <<mergeVars, alignVars, ctxVars, nameVars, applyVars, feedsVars, backfillVars, reprocessVars, simpleVars>>

\* audio_path = self.rss_parser.download_audio(...); no path raises RuntimeError.
DownloadAudio(i) ==
    /\ i \in DOMAIN episodes
    /\ ep_pc[i] = "download"
    /\ work' = [work EXCEPT ![i] = Append(@, "download_audio")]
    /\ \E downloaded \in BOOLEAN :
          IF downloaded \/ audio_file(episodes[i], output_dir) \in audio_files
          THEN /\ audio_files' = audio_files \cup {audio_file(episodes[i], output_dir)}
               /\ ep_pc' = [ep_pc EXCEPT ![i] = "transcribe"]
               /\ UNCHANGED outcome
          ELSE /\ ep_pc' = [ep_pc EXCEPT ![i] = "done"]
               /\ outcome' = [outcome EXCEPT ![i] = "RuntimeError"]
               /\ UNCHANGED audio_files
    /\ UNCHANGED <<feed_pc, output_dir, episodes, files, files_at_start, written,
                   collected, error_log>>
    /\ UNCHANGED <<mergeVars, alignVars, ctxVars, nameVars, applyVars, feedsVars, backfillVars, reprocessVars, simpleVars>>

\* TranscribeAndDiarize if process_episode logged the error and went on to the
\* naming instead of raising.
TranscribeAndDiarizeGoesOn(i) ==
    /\ i \in DOMAIN episodes
    /\ ep_pc[i] = "transcribe"
    /\ work' = [work EXCEPT ![i] = Append(@, "transcribe_and_diarize")]
    /\ \E transcribed \in BOOLEAN :
          /\ ep_pc' = [ep_pc EXCEPT ![i] = "name"]
          /\ outcome' = [outcome EXCEPT ![i] = IF transcribed THEN @ ELSE "TranscriptionError"]
    /\ UNCHANGED <<feed_pc, output_dir, episodes, files, audio_files, files_at_start,
                   written, collected, error_log>>
    /\ UNCHANGED <<mergeVars, alignVars, ctxVars, nameVars, applyVars, feedsVars, backfillVars, reprocessVars, simpleVars>>

\* whisperx_result = self.whisperx_transcriber.transcribe_and_diarize(audio_path)
TranscribeAndDiarize(i) ==
    /\ i \in DOMAIN episodes
    /\ ep_pc[i] = "transcribe"
    /\ work' = [work EXCEPT ![i] = Append(@, "transcribe_and_diarize")]
    /\ \E transcribed \in BOOLEAN :
          IF transcribed
          THEN /\ ep_pc' = [ep_pc EXCEPT ![i] = "name"]
               /\ UNCHANGED outcome
          ELSE /\ ep_pc' = [ep_pc EXCEPT ![i] = "done"]
               /\ outcome' = [outcome EXCEPT ![i] = "TranscriptionError"]
    /\ UNCHANGED <<feed_pc, output_dir, episodes, files, audio_files, files_at_start,
                   written, collected, error_log>>
    /\ UNCHANGED <<mergeVars, alignVars, ctxVars, nameVars, applyVars, feedsVars, backfillVars, reprocessVars, simpleVars>>

\* llm_segments, speaker_mappings = self.speaker_identifier.identify_speakers(...):
\* it returns, whatever the oracle did.
IdentifySpeakers(i) ==
    /\ i \in DOMAIN episodes
    /\ ep_pc[i] = "name"
    /\ work' = [work EXCEPT ![i] = Append(@, "identify_speakers")]
    /\ ep_pc' = [ep_pc EXCEPT ![i] = "export"]
    /\ UNCHANGED <<feed_pc, output_dir, episodes, outcome, files, audio_files,
                   files_at_start, written, collected, error_log>>
    /\ UNCHANGED <<mergeVars, alignVars, ctxVars, nameVars, applyVars, feedsVars, backfillVars, reprocessVars, simpleVars>>

\* output_files = self.exporter.export_all_formats(...): the files are written
\* one after the other, and a write that fails ends the episode.
ExportAllFormats(i) ==
    /\ i \in DOMAIN episodes
    /\ ep_pc[i] = "export"
    /\ work' = [work EXCEPT ![i] = Append(@, "export_all_formats")]
    /\ \E n \in 0..Len(export_files(episodes[i])) :
          LET out == {export_files(episodes[i])[k] : k \in 1..n} IN
          /\ files' = files \cup out
          /\ written' = [written EXCEPT ![i] = out]
          /\ outcome' = [outcome EXCEPT ![i] =
                            IF n = Len(export_files(episodes[i])) THEN "success" ELSE "OSError"]
    /\ ep_pc' = [ep_pc EXCEPT ![i] = "done"]
    /\ UNCHANGED <<feed_pc, output_dir, episodes, audio_files, files_at_start,
                   collected, error_log>>
    /\ UNCHANGED <<mergeVars, alignVars, ctxVars, nameVars, applyVars, feedsVars, backfillVars, reprocessVars, simpleVars>>

\* for future in as_completed(futures): future.result() inside try/except.
\* An exception the handler does not catch leaves the loop.
Collect(i) ==
    /\ i \in DOMAIN episodes
    /\ feed_pc = "collecting"
    /\ ep_pc[i] = "done"
    /\ i \notin collected
    /\ collected' = collected \cup {i}
    /\ IF outcome[i] \in EpisodeExceptions
       THEN IF except_Exception(outcome[i])
            THEN /\ error_log' = Append(error_log, i)
                 /\ UNCHANGED feed_pc
            ELSE /\ feed_pc' = "unwinding"
                 /\ UNCHANGED error_log
       ELSE UNCHANGED <<feed_pc, error_log>>
    /\ UNCHANGED <<output_dir, episodes, ep_pc, outcome, files, audio_files, work,
                   files_at_start, written>>
    /\ UNCHANGED <<mergeVars, alignVars, ctxVars, nameVars, applyVars, feedsVars, backfillVars, reprocessVars, simpleVars>>

\* The end of the with block: the executor's shutdown waits for every
\* episode, then process_feed returns, or lets out what left the loop.
ExitPool ==
    /\ \/ feed_pc = "collecting" /\ collected = DOMAIN episodes
       \/ feed_pc = "unwinding"
    /\ \A i \in DOMAIN episodes : ep_pc[i] = "done"
    /\ feed_pc' = IF feed_pc = "unwinding" THEN "raised" ELSE "returned"
    /\ UNCHANGED <<output_dir, episodes, ep_pc, outcome, files, audio_files, work,
                   files_at_start, written, collected, error_log>>
    /\ UNCHANGED <<mergeVars, alignVars, ctxVars, nameVars, applyVars, feedsVars, backfillVars, reprocessVars, simpleVars>>

PipeInit ==
    /\ feed_pc = "idle"
    /\ output_dir = None
    /\ episodes = <<>>
    /\ ep_pc = <<>>
    /\ outcome = <<>>
    /\ files = {}
    /\ audio_files = {}
    /\ work = <<>>
    /\ files_at_start = <<>>
    /\ written = <<>>
    /\ collected = {}
    /\ error_log = <<>>

Episode == 1..MaxEpisodes
Next ==
    \/ StartProcessFeed
    \/ Submit
    \/ \E i \in Episode : StartEpisode(i)
    \/ \E i \in Episode : DownloadAudio(i)
    \/ \E i \in Episode : TranscribeAndDiarize(i)
    \/ \E i \in Episode : IdentifySpeakers(i)
    \/ \E i \in Episode : ExportAllFormats(i)
    \/ \E i \in Episode : Collect(i)
    \/ ExitPool

(***************************************************************************)
(* process_all_feeds: the feeds one after the other, each through          *)
(* process_feed and its pool; process_episode is taken by when it starts   *)
(* and how it ends.                                                        *)
(***************************************************************************)
\* A feed of the configuration, with what parse_feed does for it.
FeedConfigs == [enabled : BOOLEAN, parses : BOOLEAN, size : 0..MaxFeedEpisodes]
FeedLists == UNION {[1..n -> FeedConfigs] : n \in 0..MaxFeeds}
FeedEpisodeIds == (1..MaxFeeds) \X (1..MaxFeedEpisodes)
EpisodesOfFeed(f) == {e \in FeedEpisodeIds : e[1] = f /\ e[2] <= all_feeds[f].size}
InFlight == {e \in FeedEpisodeIds : flight[e] = "running"}
Ended(e) == flight[e] \in {"returned", "raised"}

\* process_all_feeds is called with the configured feeds.
StartProcessAllFeeds ==
    /\ all_pc = "idle"
    /\ \E feeds \in FeedLists : all_feeds' = feeds
    /\ feed_index' = 1
    /\ all_pc' = "loop"
    /\ UNCHANGED <<flight, gathered, feed_errors>>
    /\ UNCHANGED <<mergeVars, alignVars, ctxVars, nameVars, pipeVars, applyVars, backfillVars, reprocessVars, simpleVars>>

\* if not feed_config.enabled: continue
SkipDisabledFeed ==
    /\ all_pc = "loop"
    /\ feed_index <= Len(all_feeds)
    /\ ~all_feeds[feed_index].enabled
    /\ feed_index' = feed_index + 1
    /\ UNCHANGED <<all_feeds, all_pc, flight, gathered, feed_errors>>
    /\ UNCHANGED <<mergeVars, alignVars, ctxVars, nameVars, pipeVars, applyVars, backfillVars, reprocessVars, simpleVars>>

\* self.process_feed(...) up to the pool: parse_feed raises, which
\* process_all_feeds catches and logs, or gives no episode, and process_feed
\* returns, or gives the episodes the pool is opened for.
EnterProcessFeed ==
    /\ all_pc = "loop"
    /\ feed_index <= Len(all_feeds)
    /\ all_feeds[feed_index].enabled
    /\ IF ~all_feeds[feed_index].parses
       THEN /\ feed_errors' = feed_errors \cup {feed_index}
            /\ feed_index' = feed_index + 1
            /\ UNCHANGED <<all_pc, flight>>
       ELSE IF all_feeds[feed_index].size = 0
       THEN /\ feed_index' = feed_index + 1
            /\ UNCHANGED <<all_pc, flight, feed_errors>>
       ELSE /\ flight' = [e \in FeedEpisodeIds |->
                              IF e \in EpisodesOfFeed(feed_index) THEN "unsubmitted" ELSE flight[e]]
            /\ all_pc' = "submitting"
            /\ UNCHANGED <<feed_index, feed_errors>>
    /\ UNCHANGED <<all_feeds, gathered>>
    /\ UNCHANGED <<mergeVars, alignVars, ctxVars, nameVars, pipeVars, applyVars, backfillVars, reprocessVars, simpleVars>>

\* future = executor.submit(self.process_episode, episode, output_dir)
SubmitToPool ==
    /\ all_pc = "submitting"
    /\ \E k \in 1..all_feeds[feed_index].size :
          /\ flight[<<feed_index, k>>] = "unsubmitted"
          /\ \A j \in 1..(k - 1) : flight[<<feed_index, j>>] /= "unsubmitted"
          /\ flight' = [flight EXCEPT ![<<feed_index, k>>] = "queued"]
          /\ all_pc' = IF k = all_feeds[feed_index].size THEN "gathering" ELSE "submitting"
    /\ UNCHANGED <<all_feeds, feed_index, gathered, feed_errors>>
    /\ UNCHANGED <<mergeVars, alignVars, ctxVars, nameVars, pipeVars, applyVars, backfillVars, reprocessVars, simpleVars>>

\* WorkerStarts if the pool had a thread for every episode submitted.
WorkerStartsUnbounded(e) ==
    /\ flight[e] = "queued"
    /\ flight' = [flight EXCEPT ![e] = "running"]
    /\ UNCHANGED <<all_feeds, feed_index, all_pc, gathered, feed_errors>>
    /\ UNCHANGED <<mergeVars, alignVars, ctxVars, nameVars, pipeVars, applyVars, backfillVars, reprocessVars, simpleVars>>

\* A free worker of ThreadPoolExecutor(max_workers=2) takes the oldest queued
\* episode and enters process_episode.
WorkerStarts(e) ==
    /\ flight[e] = "queued"
    /\ \A j \in 1..(e[2] - 1) : flight[<<e[1], j>>] /= "queued"
    /\ Cardinality(InFlight) < max_workers
    /\ flight' = [flight EXCEPT ![e] = "running"]
    /\ UNCHANGED <<all_feeds, feed_index, all_pc, gathered, feed_errors>>
    /\ UNCHANGED <<mergeVars, alignVars, ctxVars, nameVars, pipeVars, applyVars, backfillVars, reprocessVars, simpleVars>>

\* process_episode returns or raises.
WorkerEnds(e) ==
    /\ flight[e] = "running"
    /\ \E how \in {"returned", "raised"} : flight' = [flight EXCEPT ![e] = how]
    /\ UNCHANGED <<all_feeds, feed_index, all_pc, gathered, feed_errors>>
    /\ UNCHANGED <<mergeVars, alignVars, ctxVars, nameVars, pipeVars, applyVars, backfillVars, reprocessVars, simpleVars>>

\* for future in as_completed(futures): future.result(), an Exception logged.
GatherFuture(e) ==
    /\ all_pc = "gathering"
    /\ e[1] = feed_index
    /\ Ended(e)
    /\ e \notin gathered
    /\ gathered' = gathered \cup {e}
    /\ UNCHANGED <<all_feeds, feed_index, all_pc, flight, feed_errors>>
    /\ UNCHANGED <<mergeVars, alignVars, ctxVars, nameVars, pipeVars, applyVars, backfillVars, reprocessVars, simpleVars>>

\* as_completed has yielded every future: the with block ends, process_feed
\* returns and the loop of process_all_feeds goes to the next feed.
LeavePool ==
    /\ all_pc = "gathering"
    /\ EpisodesOfFeed(feed_index) \subseteq gathered
    /\ feed_index' = feed_index + 1
    /\ all_pc' = "loop"
    /\ UNCHANGED <<all_feeds, flight, gathered, feed_errors>>
    /\ UNCHANGED <<mergeVars, alignVars, ctxVars, nameVars, pipeVars, applyVars, backfillVars, reprocessVars, simpleVars>>

\* The loop over config.feeds is exhausted.
ReturnFromAllFeeds ==
    /\ all_pc = "loop"
    /\ feed_index > Len(all_feeds)
    /\ all_pc' = "returned"
    /\ UNCHANGED <<all_feeds, feed_index, flight, gathered, feed_errors>>
    /\ UNCHANGED <<mergeVars, alignVars, ctxVars, nameVars, pipeVars, applyVars, backfillVars, reprocessVars, simpleVars>>

FeedsInit ==
    /\ all_feeds = <<>>
    /\ feed_index = 1
    /\ all_pc = "idle"
    /\ flight = [e \in FeedEpisodeIds |-> "none"]
    /\ gathered = {}
    /\ feed_errors = {}

NextFeeds ==
    \/ StartProcessAllFeeds
    \/ SkipDisabledFeed
    \/ EnterProcessFeed
    \/ SubmitToPool
    \/ \E e \in FeedEpisodeIds : WorkerStarts(e)
    \/ \E e \in FeedEpisodeIds : WorkerEnds(e)
    \/ \E e \in FeedEpisodeIds : GatherFuture(e)
    \/ LeavePool
    \/ ReturnFromAllFeeds

(***************************************************************************)
(* backfill_episodes.main: the loop over the episode range with its two    *)
(* counters; process_episode is taken by what it returns or raises.        *)
(***************************************************************************)
\* args after parse_args, on a small range of episode numbers.
BackfillArgs == [start : 1..2, end : 0..MaxBackfillEnd, test : BOOLEAN, dry_run : BOOLEAN]

\* What one pass of the loop body meets: a directory the glob finds,
\* scrape_episode_info raising, and process_episode returning its output
\* files, returning None for an episode already transcribed, or raising.
BackfillEvents == {"exists", "scrape_raised", "dry_run", "processed", "already_transcribed",
                   "process_raised"}

\* main up to the loop: test mode shortens the range.
StartBackfill ==
    /\ bpc = "idle"
    /\ \E args \in BackfillArgs :
          /\ backfill_args' = IF args.test
                              THEN [args EXCEPT !.end = Min2(args.start + 2, args.end)]
                              ELSE args
          /\ episode_num' = args.start
    /\ success_count' = 0
    /\ error_count' = 0
    /\ backfill_log' = <<>>
    /\ bpc' = "loop"
    /\ UNCHANGED <<mergeVars, alignVars, ctxVars, nameVars, pipeVars, applyVars, feedsVars, reprocessVars, simpleVars>>

\* One pass of for episode_num in range(args.start, args.end + 1).
BackfillEpisode ==
    /\ bpc = "loop"
    /\ episode_num <= backfill_args.end
    /\ \E existing_dirs, scrape_raises, transcribed, process_raises \in BOOLEAN :
          LET event == IF existing_dirs THEN "exists"
                       ELSE IF scrape_raises THEN "scrape_raised"
                       ELSE IF backfill_args.dry_run THEN "dry_run"
                       ELSE IF transcribed THEN "already_transcribed"
                       ELSE IF process_raises THEN "process_raised"
                       ELSE "processed"
              called == event \in {"processed", "already_transcribed"}
              result == IF event = "processed" THEN "output_files" ELSE None
          IN /\ backfill_log' = Append(backfill_log, event)
             /\ success_count' = IF event = "dry_run" \/ (called /\ result /= None)
                                 THEN success_count + 1 ELSE success_count
             /\ error_count' = IF event \in {"scrape_raised", "process_raised"}
                                  \/ (called /\ result = None)
                               THEN error_count + 1 ELSE error_count
    /\ episode_num' = episode_num + 1
    /\ UNCHANGED <<backfill_args, bpc>>
    /\ UNCHANGED <<mergeVars, alignVars, ctxVars, nameVars, pipeVars, applyVars, feedsVars, reprocessVars, simpleVars>>

\* The range is exhausted: "Backfill complete: N successful, M errors".
FinishBackfill ==
    /\ bpc = "loop"
    /\ episode_num > backfill_args.end
    /\ bpc' = "done"
    /\ UNCHANGED <<backfill_args, episode_num, success_count, error_count, backfill_log>>
    /\ UNCHANGED <<mergeVars, alignVars, ctxVars, nameVars, pipeVars, applyVars, feedsVars, reprocessVars, simpleVars>>

BackfillInit ==
    /\ backfill_args = [start |-> 1, end |-> 0, test |-> FALSE, dry_run |-> FALSE]
    /\ episode_num = 1
    /\ success_count = 0
    /\ error_count = 0
    /\ backfill_log = <<>>
    /\ bpc = "idle"

NextBackfill == StartBackfill \/ BackfillEpisode \/ FinishBackfill

(***************************************************************************)
(* The metadata artifact: export_metadata writes it, reprocess_episode     *)
(* updates it.  JSON values are strings, null, or objects as lists of      *)
(* items in insertion order.                                               *)
(***************************************************************************)
JsonStr(t) == [kind |-> "str", str |-> t, items |-> <<>>]
JsonNull == [kind |-> "null", str |-> "", items |-> <<>>]
JsonObj(items) == [kind |-> "obj", str |-> "", items |-> items]
NoFile == [kind |-> "absent", str |-> "", items |-> <<>>]

\* One level of _clean_metadata: the items whose value is not None.
NotNull(item) == item.val.kind /= "null"
\* TranscriptExporter._clean_metadata on the two levels the metadata has.
clean_metadata(obj) ==
    IF obj.kind /= "obj" THEN obj
    ELSE LET kept == SelectSeq(obj.items, NotNull)
         IN JsonObj([i \in DOMAIN kept |->
                        [key |-> kept[i].key,
                         val |-> IF kept[i].val.kind = "obj"
                                 THEN JsonObj(SelectSeq(kept[i].val.items, NotNull))
                                 ELSE kept[i].val]])

\* DictUpdate if the new object replaced the old one wholesale.
DictReplace(d, other) == IF other = <<>> THEN d ELSE other

\* dict.update: the keys of other written over d, in other's order.
RECURSIVE DictUpdate(_, _)
DictUpdate(d, other) ==
    IF other = <<>> THEN d
    ELSE DictUpdate(DictSet(d, Head(other).key, Head(other).val), Tail(other))

\* processing_metadata of process_episode, for a configuration and a run.
PipelineProcessingMetadata(model_size, language, provider) ==
    << [key |-> "transcribed_date", val |-> JsonStr("t0")],
       [key |-> "model_used", val |-> JsonStr(model_size)],
       [key |-> "language_detected", val |-> JsonStr(language)],
       [key |-> "device_used", val |-> JsonStr("cpu")],
       [key |-> "diarization_enabled", val |-> JsonStr("true")],
       [key |-> "llm_provider", val |-> provider],
       [key |-> "processing_time_seconds", val |-> JsonStr("12.5")] >>

\* TranscriptExporter.export_metadata: the object it writes.
export_metadata(episode_number, processing) ==
    clean_metadata(JsonObj(
        << [key |-> "podcast", val |-> JsonObj(<< [key |-> "name", val |-> JsonStr("P")] >>)],
           [key |-> "episode", val |-> JsonObj(<< [key |-> "title", val |-> JsonStr("T")],
                                                   [key |-> "number", val |-> episode_number] >>)],
           [key |-> "processing", val |-> JsonObj(processing)],
           [key |-> "export", val |-> JsonObj(<< [key |-> "export_time", val |-> JsonStr("t0")],
                                                  [key |-> "format_version", val |-> JsonStr("1.0")] >>)] >>))

\* processing_metadata of reprocess_episode.
ReprocessingMetadata(date, provider, model, seconds, mappings) ==
    << [key |-> "reprocessed_date", val |-> JsonStr(date)],
       [key |-> "original_transcription_date", val |-> JsonStr("unknown")],
       [key |-> "llm_provider", val |-> JsonStr(provider)],
       [key |-> "llm_model", val |-> JsonStr(model)],
       [key |-> "reprocessing_time_seconds", val |-> JsonStr(seconds)],
       [key |-> "speaker_mappings_applied", val |-> JsonObj(mappings)] >>

AppliedMappings ==
    { <<>>, << [key |-> "SPEAKER_00", val |-> JsonStr("Jane")] >> }

\* The original run of the pipeline exports the metadata of the episode.
ExportMetadata ==
    /\ rpc = "none"
    /\ \E model_size \in {"base", "large"}, language \in {"en", "unknown"},
          provider \in {JsonNull, JsonStr("openai")}, number \in {JsonNull, JsonStr("7")} :
          LET processing == PipelineProcessingMetadata(model_size, language, provider) IN
          /\ metadata_file' = export_metadata(number, processing)
          /\ processing_metadata' = processing
    /\ rpc' = "exported"
    /\ UNCHANGED <<metadata_before, reprocess_result, reprocess_runs>>
    /\ UNCHANGED <<mergeVars, alignVars, ctxVars, nameVars, pipeVars, applyVars, feedsVars,
                   backfillVars, simpleVars>>

\* reprocess_episode: an exception before the metadata is written gives
\* success False and leaves the file; otherwise the new processing metadata
\* is written over the object loaded from the file, or alone without a file.
ReprocessEpisode ==
    /\ reprocess_runs < MaxReprocess
    /\ \E raises \in BOOLEAN, date \in {"t1", "t2"}, provider \in {"openai", "anthropic"},
          mappings \in AppliedMappings :
          LET new == ReprocessingMetadata(date, provider, "m", "3.2", mappings)
              existing_metadata == IF metadata_file /= NoFile
                                   THEN JsonObj(DictUpdate(metadata_file.items, new))
                                   ELSE JsonObj(new)
          IN /\ metadata_before' = metadata_file
             /\ processing_metadata' = new
             /\ reprocess_result' = ~raises
             /\ metadata_file' = IF raises THEN metadata_file ELSE existing_metadata
    /\ reprocess_runs' = reprocess_runs + 1
    /\ rpc' = "reprocessed"
    /\ UNCHANGED <<mergeVars, alignVars, ctxVars, nameVars, pipeVars, applyVars, feedsVars,
                   backfillVars, simpleVars>>

ReprocessInit ==
    /\ metadata_file = NoFile
    /\ metadata_before = NoFile
    /\ processing_metadata = <<>>
    /\ reprocess_result = FALSE
    /\ reprocess_runs = 0
    /\ rpc = "none"

NextReprocess == ExportMetadata \/ ReprocessEpisode

(***************************************************************************)
(* SimpleDiarizer.merge_with_transcription, the silence-gap aligner        *)
(* (speaker_diarizer.py 142-191).                                          *)
(***************************************************************************)
\* speakers = ["SPEAKER_01", "SPEAKER_02"]
simple_speakers == <<"SPEAKER_01", "SPEAKER_02">>

\* last_end when the loop reaches segment i: 0.0 at first, then the end of
\* the segment before.
LastEnd(transcription, i) == IF i = 1 THEN 0 ELSE transcription[i - 1].end

\* The test of line 179 with >= for >.
GapExceedsOrMeets(transcription, i) ==
    transcription[i].start - LastEnd(transcription, i) >= silence_threshold

\* if trans_seg.start - last_end > self.silence_threshold
GapExceeds(transcription, i) ==
    transcription[i].start - LastEnd(transcription, i) > silence_threshold

\* current_speaker_idx after the loop has handled segments 1..i.
RECURSIVE CurrentSpeakerIdx(_, _)
CurrentSpeakerIdx(transcription, i) ==
    IF i = 0 THEN 0
    ELSE IF GapExceeds(transcription, i)
    THEN (CurrentSpeakerIdx(transcription, i - 1) + 1) % Len(simple_speakers)
    ELSE CurrentSpeakerIdx(transcription, i - 1)

\* The list the loop of lines 178 to 189 builds.
simple_merge_with_transcription(transcription) ==
    [i \in DOMAIN transcription |->
        [start |-> transcription[i].start,
         end |-> transcription[i].end,
         text |-> transcription[i].text,
         speaker |-> simple_speakers[CurrentSpeakerIdx(transcription, i) + 1]]]

SimpleTimes == 0..MaxSimpleTime
SimpleTexts == {"a", "b"}

\* One more segment of the transcription, in time order.
AddSimpleSegment ==
    /\ spc = "collect"
    /\ Len(simple_transcription) < MaxSimpleSegs
    /\ \E st \in SimpleTimes, en \in SimpleTimes, tx \in SimpleTexts :
          /\ st <= en
          /\ simple_transcription /= <<>> =>
                simple_transcription[Len(simple_transcription)].start <= st
          /\ simple_transcription' =
                Append(simple_transcription, [start |-> st, end |-> en, text |-> tx])
    /\ UNCHANGED <<simple_merged, spc>>
    /\ UNCHANGED <<mergeVars, alignVars, ctxVars, nameVars, pipeVars, applyVars, feedsVars, backfillVars, reprocessVars>>

\* merged = diarizer.merge_with_transcription(segments, diarization.segments)
CallSimpleMerge ==
    /\ spc = "collect"
    /\ simple_merged' = simple_merge_with_transcription(simple_transcription)
    /\ spc' = "merged"
    /\ UNCHANGED simple_transcription
    /\ UNCHANGED <<mergeVars, alignVars, ctxVars, nameVars, pipeVars, applyVars, feedsVars, backfillVars, reprocessVars>>

SimpleInit ==
    /\ simple_transcription = <<>>
    /\ simple_merged = <<>>
    /\ spc = "collect"

NextSimple == AddSimpleSegment \/ CallSimpleMerge

InitAll == MergeInit /\ AlignInit /\ CtxInit /\ NameInit /\ PipeInit /\ ApplyInit /\ FeedsInit /\ BackfillInit /\ ReprocessInit /\ SimpleInit

Spec == InitAll /\ [][Next]_vars

NextMerge == AppendSegment \/ CallMerge \/ CallMergeAgain
SpecMerge == InitAll /\ [][NextMerge]_vars

NextAlign == AddTurn \/ AddTranscriptSegment \/ CallMergeWithTranscription
SpecAlign == InitAll /\ [][NextAlign]_vars

SpecContext == InitAll /\ [][NextContext]_vars

SpecNaming == InitAll /\ [][NextNaming]_vars

SpecApply == InitAll /\ [][NextApply]_vars

SpecFeeds == InitAll /\ [][NextFeeds]_vars

SpecBackfill == InitAll /\ [][NextBackfill]_vars

SpecReprocess == InitAll /\ [][NextReprocess]_vars

SpecSimple == InitAll /\ [][NextSimple]_vars

(***************************************************************************)
(* Claims about the coalescer, checked under SpecMerge.                    *)
(***************************************************************************)
MergeReturned == mpc \in {"merged", "remerged"}
MergedValues == Deref(heap, merged)

\* The input positions at which a run starts: the first, and every segment that
\* differs in speaker from its predecessor or starts 2 s or more after its end.
RunStarts(s) ==
    {i \in DOMAIN s :
        i = 1 \/ ~(s[i].speaker = s[i-1].speaker /\ s[i].start - s[i-1].end < 2)}
NthRunStart(s, k) ==
    CHOOSE i \in RunStarts(s) : Cardinality({j \in RunStarts(s) : j < i}) = k - 1
NthRunEnd(s, k) ==
    IF k = Cardinality(RunStarts(s)) THEN Len(s) ELSE NthRunStart(s, k + 1) - 1

RECURSIVE JoinTexts(_, _, _)
JoinTexts(s, a, b) ==
    IF a = b THEN s[a].text ELSE JoinTexts(s, a, b - 1) \o <<" ">> \o s[b].text

\* C6: a segment is merged into the current run iff it has the run's speaker and
\* starts less than 2 s after the end of the last segment absorbed; so the runs of
\* the output are exactly the maximal stretches of consecutive input segments
\* between two run starts, and nothing else is ever merged.
C6_MergeIffSameSpeakerAndGapBelowTolerance ==
    MergeReturned =>
        /\ Len(merged) = Cardinality(RunStarts(snapshot))
        /\ \A k \in 1..Len(merged) :
              LET a == NthRunStart(snapshot, k)
                  b == NthRunEnd(snapshot, k)
              IN /\ MergedValues[k].start = snapshot[a].start
                 /\ MergedValues[k].speaker = snapshot[a].speaker
                 /\ MergedValues[k].end = snapshot[b].end
                 /\ MergedValues[k].text = JoinTexts(snapshot, a, b)

C6_Witness ==
    /\ mpc = "merged"
    /\ Len(snapshot) = 3
    /\ Len(merged) = 2
    /\ snapshot[1].speaker = snapshot[2].speaker
    /\ snapshot[2].speaker = snapshot[3].speaker

\* Every consecutive pair of the input has one speaker and a gap of exactly 2 s.
AllPairsAtBoundary ==
    /\ Len(snapshot) >= 2
    /\ \A i \in 2..Len(snapshot) :
          /\ snapshot[i].speaker = snapshot[i-1].speaker
          /\ snapshot[i].start - snapshot[i-1].end = 2

\* C7 as stated: two consecutive same-speaker segments with a gap of exactly 2.0 s
\* are merged into one run.
C7_BoundaryGapMerges ==
    (MergeReturned /\ Len(snapshot) = 2 /\ AllPairsAtBoundary) => Len(merged) = 1

\* C7 amended: same-speaker segments with a gap of exactly 2.0 s are not merged;
\* each stays a run of its own, so the output equals the input.
C7_BoundaryGapDoesNotMerge ==
    (MergeReturned /\ AllPairsAtBoundary) => MergedValues = snapshot

C7_Witness ==
    /\ mpc = "merged"
    /\ Len(snapshot) = 2
    /\ AllPairsAtBoundary
    /\ Len(merged) = 2

\* C8: in the output no two adjacent segments have one speaker and a gap under
\* 2 s, and merging the output again returns an equal list.
C8_MergeIsFixedPoint ==
    /\ MergeReturned =>
          \A k \in 2..Len(merged) :
              ~(/\ MergedValues[k].speaker = MergedValues[k-1].speaker
                /\ MergedValues[k].start - MergedValues[k-1].end < 2)
    /\ mpc = "remerged" => Deref(heap, remerged) = MergedValues

C8_Witness ==
    /\ mpc = "remerged"
    /\ Len(merged) = 2
    /\ Len(snapshot) = 3
    /\ MergedValues[1].speaker = MergedValues[2].speaker

\* The segments lo..hi of s as one run.
GroupAsRun(s, lo, hi) ==
    [start |-> s[lo].start, end |-> s[hi].end, speaker |-> s[lo].speaker,
     text |-> JoinTexts(s, lo, hi)]

\* C9: the output is a partition of the input into contiguous groups in order:
\* no longer than the input, each output segment has the start of its group's
\* first segment, the end of its last, the group's common speaker and the texts
\* joined by single spaces; the input dicts are left as they were.
C9_OutputIsContiguousPartition ==
    MergeReturned =>
        /\ Len(merged) <= Len(snapshot)
        /\ Deref(heap, diarized) = snapshot
        /\ (snapshot = <<>> => merged = <<>>)
        /\ snapshot /= <<>> =>
              \E cuts \in SUBSET (2..Len(snapshot)) :
                  LET lo(k) == IF k = 1 THEN 1
                               ELSE CHOOSE i \in cuts : Cardinality({j \in cuts : j < i}) = k - 2
                      hi(k) == IF k = Cardinality(cuts) + 1 THEN Len(snapshot)
                               ELSE lo(k + 1) - 1
                  IN /\ Len(merged) = Cardinality(cuts) + 1
                     /\ \A k \in 1..Len(merged) :
                           /\ \A i \in lo(k)..hi(k) : snapshot[i].speaker = snapshot[lo(k)].speaker
                           /\ MergedValues[k] = GroupAsRun(snapshot, lo(k), hi(k))

C9_Witness ==
    /\ mpc = "merged"
    /\ Len(snapshot) = 3
    /\ Len(merged) = 1
    /\ snapshot[1].text /= snapshot[2].text

(***************************************************************************)
(* Claims about the aligner, checked under SpecAlign.                      *)
(***************************************************************************)
Overlap(s, e, turn) == Max2(0, Min2(e, turn.end) - Max2(s, turn.start))

RECURSIVE SummedOverlap(_, _, _, _)
SummedOverlap(s, e, turns, speaker) ==
    IF turns = <<>> THEN 0
    ELSE (IF Head(turns).speaker = speaker THEN Overlap(s, e, Head(turns)) ELSE 0)
         + SummedOverlap(s, e, Tail(turns), speaker)

TurnSpeakers == {diarization_segments[i].speaker : i \in DOMAIN diarization_segments}

\* C5: every transcript segment is emitted with the speaker whose summed overlap
\* with it is greatest among all speakers, and with "UNKNOWN" when no turn
\* overlaps it (an empty turn list included).
C5_LabelHasMaximalSummedOverlap ==
    apc = "aligned" =>
        /\ Len(merged_segments) = Len(transcription_segments)
        /\ \A i \in DOMAIN merged_segments :
              LET seg == transcription_segments[i]
                  out == merged_segments[i]
                  total(sp) == SummedOverlap(seg.start, seg.end, diarization_segments, sp)
              IN /\ out.start = seg.start /\ out.end = seg.end /\ out.text = seg.text
                 /\ IF \A sp \in TurnSpeakers : total(sp) = 0
                    THEN out.speaker = "UNKNOWN"
                    ELSE /\ out.speaker \in TurnSpeakers
                         /\ \A sp \in TurnSpeakers : total(sp) <= total(out.speaker)

\* Two turns of one speaker together outweigh a longer single turn of another.
C5_Witness ==
    /\ apc = "aligned"
    /\ Len(merged_segments) = 1
    /\ Len(diarization_segments) = 3
    /\ LET seg == transcription_segments[1]
           other == CHOOSE sp \in SpeakerIds : sp /= merged_segments[1].speaker
       IN /\ merged_segments[1].speaker \in SpeakerIds
          /\ SummedOverlap(seg.start, seg.end, diarization_segments, other)
                 < SummedOverlap(seg.start, seg.end, diarization_segments,
                                 merged_segments[1].speaker)
          /\ \E i \in DOMAIN diarization_segments :
                /\ diarization_segments[i].speaker = other
                /\ \A j \in DOMAIN diarization_segments :
                      diarization_segments[j].speaker /= other =>
                          Overlap(seg.start, seg.end, diarization_segments[j])
                              < Overlap(seg.start, seg.end, diarization_segments[i])

(***************************************************************************)
(* Claims about the context sampler, checked under SpecContext.            *)
(***************************************************************************)
CtxSpeakerCount == Cardinality({ctx_segments[i].speaker : i \in DOMAIN ctx_segments})
HasVisibleText(seg) == \E i \in DOMAIN seg.text : seg.text[i] \notin {" ", "\t", "\n"}
\* The text between its first and its last character that is not white space.
Trimmed(t) ==
    LET visible == {i \in DOMAIN t : t[i] \notin {" ", "\t", "\n"}}
        first == CHOOSE i \in visible : \A j \in visible : i <= j
        last == CHOOSE i \in visible : \A j \in visible : j <= i
    IN SubSeq(t, first, last)

\* C10 as stated: with at most 6 distinct speakers the context has one line for
\* every input segment, in order, with its timestamp, speaker and text unchanged.
C10_EverySegmentHasItsLine ==
    (cpc = "built" /\ CtxSpeakerCount <= 6) =>
        /\ Len(context_lines) = Len(ctx_segments)
        /\ \A i \in DOMAIN context_lines :
              /\ context_lines[i].time = [minutes |-> ctx_segments[i].start \div 60,
                                          secs |-> ctx_segments[i].start % 60]
              /\ context_lines[i].speaker = ctx_segments[i].speaker
              /\ context_lines[i].text = ctx_segments[i].text

\* C10 amended: with at most 6 distinct speakers nothing is sampled out, and the
\* context has one line for every input segment whose text is not blank, in
\* order, with its MM:SS timestamp, its speaker and its text stripped of leading
\* and trailing white space; a segment with a blank text has no line.
C10_EveryNonBlankSegmentHasItsLine ==
    (cpc = "built" /\ CtxSpeakerCount <= 6) =>
        LET kept == SelectSeq(ctx_segments, HasVisibleText) IN
        /\ segments_to_use = ctx_segments
        /\ Len(context_lines) = Len(kept)
        /\ \A i \in DOMAIN context_lines :
              /\ context_lines[i].time = [minutes |-> kept[i].start \div 60,
                                          secs |-> kept[i].start % 60]
              /\ context_lines[i].speaker = kept[i].speaker
              /\ context_lines[i].text = Trimmed(kept[i].text)

C10_Witness ==
    /\ cpc = "built"
    /\ Len(ctx_segments) = 3
    /\ CtxSpeakerCount = 2
    /\ Len(context_lines) = 2
    /\ ctx_segments[2].text = <<" ">>
    /\ ctx_segments[3].text = <<" ", "b">>
    /\ ctx_segments[3].start = 125

(***************************************************************************)
(* Claims about speaker naming                                             *)
(***************************************************************************)
Identified == npc \in {"identified", "done"}
NamingFailed == oracle_response.kind \in {"prompt_error", "raises", "none", "no_json", "bad_json"}
DistinctSpeakerIds == {diarized_segments[i].speaker : i \in DOMAIN diarized_segments}
DictItems(d) == {d[i] : i \in DOMAIN d}
\* Speaker_N for each distinct speaker id, N its rank in lexicographic order.
LexicographicFallback ==
    {[key |-> sp,
      val |-> Speaker_ \o IntToStr(1 + Cardinality({t \in DistinctSpeakerIds : StrLess(t, sp)}))]
        : sp \in DistinctSpeakerIds}

\* C3: identify_speakers of the oracle-backed identifier never raises; when the
\* oracle call or the parsing of its answer fails it returns the input segments
\* unchanged and an empty mapping, and the calling run does not fail because
\* of naming: it ends in success unless the export fails.
C3_NamingFailureNeverFailsTheRun ==
    (speaker_identifier = "SpeakerIdentifier" /\ Identified) =>
        /\ ~identify_raised
        /\ NamingFailed => (speaker_mappings = <<>> /\ llm_segments = diarized_segments)
        /\ npc = "done" => run_outcome \in {"success", "failed_in_export"}

C3_Witness ==
    /\ speaker_identifier = "SpeakerIdentifier"
    /\ npc = "done"
    /\ oracle_response.kind = "raises"
    /\ Len(diarized_segments) = 2
    /\ llm_segments = diarized_segments
    /\ speaker_mappings = <<>>
    /\ run_outcome = "success"

\* C4 as stated: without an API key, or when the oracle call fails or its
\* answer cannot be parsed, the mapping is the Speaker_N fallback in
\* lexicographic order of speaker id.
C4_FallbackOnMissingKeyOrOracleFailure ==
    (Identified /\ (api_key = "" \/ oracle_response.kind \in {"raises", "none", "no_json", "bad_json"})) =>
        /\ DictItems(speaker_mappings) = LexicographicFallback
        /\ Len(speaker_mappings) = Cardinality(DistinctSpeakerIds)

\* C4 as the code has it: only the missing API key gives the Speaker_N
\* fallback in lexicographic order of speaker id; with a key, a failed oracle
\* call or an unparsable answer gives the empty mapping.
C4_FallbackOnlyWithoutApiKey ==
    Identified =>
        /\ api_key = "" =>
              /\ DictItems(speaker_mappings) = LexicographicFallback
              /\ Len(speaker_mappings) = Cardinality(DistinctSpeakerIds)
        /\ (api_key /= "" /\ oracle_response.kind \in {"raises", "none", "no_json", "bad_json"}) =>
              speaker_mappings = <<>>

C4_Witness ==
    /\ Identified
    /\ api_key = ""
    /\ Len(diarized_segments) = 2
    /\ diarized_segments[1].speaker = Id2
    /\ diarized_segments[2].speaker = Id10
    /\ speaker_mappings = <<Item(Id10, Speaker_ \o <<"1">>), Item(Id2, Speaker_ \o <<"2">>)>>
    /\ llm_segments[1].speaker = Speaker_ \o <<"2">>

(***************************************************************************)
(* Claims about the orchestrator                                           *)
(***************************************************************************)
Entered(i) == ep_pc[i] \notin {"unsubmitted", "queued"}
ExpectedOutputDir(i) ==
    episode_dir(IF output_dir /= None THEN output_dir ELSE BaseDir, episodes[i])
CanonicalArtifacts(i) ==
    {FileIn(ExpectedOutputDir(i), filename_prefix(episodes[i]) \o kind \o Json) :
        kind \in {Raw, Diarized, Enhanced}}
ArtifactAtStart(i) == CanonicalArtifacts(i) \cap files_at_start[i] /= {}
Terminated(i) == ep_pc[i] = "done" /\ outcome[i] \in {"skipped", "success"} \cup EpisodeExceptions

\* C1: an episode whose expected output directory holds one of
\* <prefix>_raw.json, <prefix>_diarized.json, <prefix>_enhanced.json when
\* process_episode is entered is skipped: process_episode makes no download,
\* transcription, naming or export call, writes no file, and returns None.
C1_ExistingArtifactSkipsEpisode ==
    \A i \in DOMAIN episodes :
        (Entered(i) /\ ArtifactAtStart(i)) =>
            /\ ep_pc[i] = "done"
            /\ outcome[i] = "skipped"
            /\ work[i] = <<>>
            /\ written[i] = {}

C1_Witness ==
    \E i \in DOMAIN episodes :
        /\ Entered(i)
        /\ CanonicalArtifacts(i) \cap files_at_start[i] =
               {FileIn(ExpectedOutputDir(i), filename_prefix(episodes[i]) \o Enhanced \o Json)}
        /\ outcome[i] = "skipped"
        /\ feed_pc = "returned"
        /\ \E j \in DOMAIN episodes : outcome[j] = "success"

\* C2: an exception of process_episode for one episode does not leave
\* process_feed and stops no other episode: until process_feed has returned
\* some thread can go on, whatever has failed, and process_feed returns only
\* when every submitted episode has ended in success, skip or failure.
C2_EpisodeFailureIsIsolated ==
    /\ feed_pc \notin {"unwinding", "raised"}
    /\ feed_pc = "returned" => \A i \in DOMAIN episodes : Terminated(i)
    /\ feed_pc \in {"submitting", "collecting"} => ENABLED Next

C2_Witness ==
    /\ feed_pc = "returned"
    /\ Len(episodes) = 2
    /\ outcome[1] = "TranscriptionError"
    /\ outcome[2] = "success"
    /\ error_log = <<1>>
    /\ "export_all_formats" \notin {work[1][k] : k \in DOMAIN work[1]}

(***************************************************************************)
(* Claims about the sampler's caps and phases                              *)
(***************************************************************************)
\* C11: with more than 10 distinct speakers the excerpt has at most 150
\* segments and lines, with 7 to 10 at most 200, however long the transcript.
C11_ExcerptWithinCap ==
    cpc = "built" =>
        /\ CtxSpeakerCount > 10 =>
              (Len(segments_to_use) <= 150 /\ Len(context_lines) <= 150)
        /\ (CtxSpeakerCount >= 7 /\ CtxSpeakerCount <= 10) =>
              (Len(segments_to_use) <= 200 /\ Len(context_lines) <= 200)

C11_Witness ==
    /\ cpc = "built"
    /\ CtxSpeakerCount > 10
    /\ Len(ctx_segments) > 150
    /\ Len(segments_to_use) = 150
    /\ Len(context_lines) = 150

\* The two phases of a transcript, as the claim has them: the interview is the
\* segments that start within the first 1800 s and the first 40% of the show.
ShowLength == ctx_segments[Len(ctx_segments)].start
StartsInInterview(seg) == seg.start <= 1800 /\ 5 * seg.start <= 2 * ShowLength
StartsInMainShow(seg) == ~StartsInInterview(seg)
InterviewPhase == SelectSeq(ctx_segments, StartsInInterview)
MainShowPhase == SelectSeq(ctx_segments, StartsInMainShow)
TwoPhaseSampling ==
    /\ cpc = "built"
    /\ CtxSpeakerCount > 6
    /\ InterviewPhase /= <<>>
    /\ MainShowPhase /= <<>>
Selected == {segments_to_use[i] : i \in DOMAIN segments_to_use}

\* C12: when two-phase sampling applies, the excerpt holds the first 30
\* segments of the interview phase and the first 20 of the main-show phase.
C12_PhaseIntrosAlwaysIncluded ==
    TwoPhaseSampling =>
        /\ \A i \in 1..Min2(30, Len(InterviewPhase)) : InterviewPhase[i] \in Selected
        /\ \A i \in 1..Min2(20, Len(MainShowPhase)) : MainShowPhase[i] \in Selected

\* The list the first call of _apply_speaker_mappings returned.
AppliedSegments == Deref(apply_heap, applied.refs)

\* What the renaming contract asks of a returned list: same length and order,
\* mapped segments renamed with the original id kept, the others as they
\* were, times untouched, and the input dicts as they were at the call.
RenamingContract ==
    /\ Len(AppliedSegments) = Len(apply_snapshot)
    /\ \A i \in DOMAIN apply_snapshot :
          LET seg == apply_snapshot[i]
              out == AppliedSegments[i]
          IN /\ out.start = seg.start /\ out.end = seg.end
             /\ IF DictHas(apply_mapping, seg.speaker)
                THEN /\ out.speaker = DictGet(apply_mapping, seg.speaker, None)
                     /\ out.original_speaker_id = seg.speaker
                ELSE /\ out.speaker = seg.speaker
                     /\ out.original_speaker_id = Absent
    /\ Deref(apply_heap, apply_refs) = apply_snapshot

\* C13: for every segment list and mapping, _apply_speaker_mappings of either
\* class returns a list of the same length and order, where a segment whose
\* speaker is a key of the mapping carries the mapped name and its original
\* id, any other segment keeps its speaker and gains no original_speaker_id,
\* start and end are unchanged, and the input segments are not mutated.
C13_ApplyRenamesEverySegmentList ==
    xpc = "applied" => (~applied.exc /\ RenamingContract)

\* C13 where the call returns: the contract holds of every returned list.
C13_ReturnedListMeetsContract ==
    (xpc = "applied" /\ ~applied.exc) => RenamingContract

\* A literal, case-insensitive occurrence of key at the start of text.
MatchesAt(key, text) ==
    /\ key /= <<>>
    /\ Len(text) >= Len(key)
    /\ LowerStr(SubSeq(text, 1, Len(key))) = LowerStr(key)

\* The texts in which every occurrence of a mapped id in text has become that
\* id's display name: read left to right, and where two ids occur at the same
\* place either may be the one replaced.
RECURSIVE Replacements(_, _)
Replacements(items, text) ==
    IF text = <<>> THEN {<<>>}
    ELSE LET hits == {i \in DOMAIN items : MatchesAt(items[i].key, text)}
         IN IF hits = {}
            THEN {<<Head(text)>> \o r : r \in Replacements(items, Tail(text))}
            ELSE UNION {{items[i].val \o r :
                            r \in Replacements(items, SubSeq(text, Len(items[i].key) + 1, Len(text)))}
                        : i \in hits}

\* C14: when a mapping is applied, by the oracle-backed identifier or by the
\* fallback namer, every case-insensitive literal occurrence of every mapped
\* speaker id in the text of every segment, mapped or not, is replaced by
\* that id's display name.
C14_EveryMentionOfMappedIdIsReplaced ==
    (Identified /\ speaker_mappings /= <<>>) =>
        \A i \in DOMAIN diarized_segments :
            llm_segments[i].text \in Replacements(speaker_mappings, diarized_segments[i].text)

\* The list the second call returned.
ReappliedSegments == Deref(apply_heap, reapplied.refs)

\* No display name of the applied mapping is itself one of its keys.
NoNameIsKey ==
    \A i, j \in DOMAIN apply_mapping : apply_mapping[i].val /= apply_mapping[j].key

\* No text of the first result still holds a mapped id, in any letter case.
NoMappedIdLeft ==
    \A i \in DOMAIN AppliedSegments, j \in DOMAIN apply_mapping :
        ~Contains(LowerStr(AppliedSegments[i].text), LowerStr(apply_mapping[j].key))

WellFormedSpeakerId(id) ==
    /\ Len(id) > Len(SPEAKER_)
    /\ SubSeq(id, 1, Len(SPEAKER_)) = SPEAKER_
    /\ \A i \in (Len(SPEAKER_) + 1)..Len(id) : \E d \in DOMAIN DigitChars : DigitChars[d] = id[i]

\* C16: every mapping identify_speakers returns, oracle-backed or fallback,
\* has only keys that are well-formed SPEAKER_<digits> ids and that are the
\* speaker of at least one diarized segment of the episode, and every value
\* is a non-empty string.
C16_KeysAreObservedWellFormedIds ==
    Identified =>
        \A i \in DOMAIN speaker_mappings :
            /\ WellFormedSpeakerId(speaker_mappings[i].key)
            /\ speaker_mappings[i].key \in DistinctSpeakerIds
            /\ speaker_mappings[i].val /= <<>>

\* C16 as far as the code keeps it: every value is a non-empty string and
\* every key holds the substring SPEAKER_.
C16_KeysHoldMarkerAndValuesNonEmpty ==
    Identified =>
        \A i \in DOMAIN speaker_mappings :
            /\ Contains(speaker_mappings[i].key, SPEAKER_)
            /\ speaker_mappings[i].val /= <<>>

\* The stages of process_episode in pipeline order, and the stage each
\* position of an episode is about to start.
StageOrder == <<"download_audio", "transcribe_and_diarize", "identify_speakers",
                "export_all_formats">>
StagesBefore(pc) ==
    CASE pc = "download" -> 0
      [] pc = "transcribe" -> 1
      [] pc = "name" -> 2
      [] pc = "export" -> 3
Failed(i) == outcome[i] \in EpisodeExceptions

\* The stages of episode i so far are the first ones of the pipeline order;
\* a stage is about to start only with all earlier ones behind it and no
\* failure; success has all four; a failure has ended the episode.
StagesInOrder(i) ==
    /\ \E n \in 0..Len(StageOrder) : work[i] = SubSeq(StageOrder, 1, n)
    /\ ep_pc[i] \in {"download", "transcribe", "name", "export"} =>
          /\ work[i] = SubSeq(StageOrder, 1, StagesBefore(ep_pc[i]))
          /\ outcome[i] = "pending"
    /\ outcome[i] = "success" => (work[i] = StageOrder /\ ep_pc[i] = "done")
    /\ Failed(i) => (ep_pc[i] = "done" /\ work[i] /= <<>>)

\* An episode that has ended stays as it ended.
EndedIsTerminal(i) ==
    (i \in DOMAIN episodes /\ ep_pc[i] = "done") =>
        /\ i \in DOMAIN episodes'
        /\ ep_pc'[i] = "done"
        /\ outcome'[i] = outcome[i]
        /\ work'[i] = work[i]

\* C17: process_episode runs download, transcription and diarization, naming,
\* export strictly in that order; no stage starts before the one before it
\* has completed without error; an error in a stage ends the episode as
\* failed, with the exception raised and no later stage run; an episode that
\* is done or failed never moves again.
C17_StagesStrictlyInOrder ==
    /\ [](\A i \in DOMAIN episodes : StagesInOrder(i))
    /\ [][\A i \in Episode : EndedIsTerminal(i)]_vars

\* One episode failed in transcription after its download and stopped there,
\* the other went through all four stages.
C17_Witness ==
    /\ Len(episodes) = 2
    /\ outcome[1] = "TranscriptionError"
    /\ work[1] = <<"download_audio", "transcribe_and_diarize">>
    /\ ep_pc[1] = "done"
    /\ outcome[2] = "success"
    /\ work[2] = StageOrder

\* The episodes whose process_episode has been entered.
StartedInBatch == {e \in FeedEpisodeIds : flight[e] \in {"running", "returned", "raised"}}

\* C18: during process_all_feeds at most 2 episodes are in flight at any
\* moment, all episodes in flight belong to one feed, and no episode of a
\* feed is started until every episode of the feeds processed before it has
\* returned or raised.
C18_TwoInFlightOneFeedAtATime ==
    /\ Cardinality(InFlight) <= 2
    /\ \A d, e \in InFlight : d[1] = e[1]
    /\ \A e \in StartedInBatch :
          \A d \in FeedEpisodeIds : (d[1] < e[1] /\ flight[d] /= "none") => Ended(d)

\* Two episodes of the second feed in flight and a third waiting for a
\* worker, after the three episodes of the first feed have ended.
C18_Witness ==
    /\ Len(all_feeds) = 2
    /\ feed_index = 2
    /\ \A k \in 1..3 : Ended(<<1, k>>)
    /\ flight[<<1, 2>>] = "raised"
    /\ flight[<<2, 1>>] = "running"
    /\ flight[<<2, 2>>] = "running"
    /\ flight[<<2, 3>>] = "queued"

\* The paths export_all_formats writes for episode i of the feed.
OutputPaths(i) == SeqToSet(export_files(episodes[i]))

\* C19: within one run no two workers write the same output path: any two
\* distinct episodes of a feed that are in process_episode at the same time
\* have disjoint sets of output paths.
C19_ConcurrentEpisodesWriteDistinctPaths ==
    \A i, j \in Running : i /= j => OutputPaths(i) \cap OutputPaths(j) = {}

\* How many episodes of the backfill range met one of the given events.
BackfillCount(events) == Cardinality({k \in DOMAIN backfill_log : backfill_log[k] \in events})

\* C20: at the end of a batch run every episode handled is counted exactly
\* once, as a success or as a failure, and an episode is counted as a failure
\* only if its processing raised an error: an episode skipped as already
\* processed is no failure.
C20_FailureCountedOnlyWhenProcessingRaised ==
    bpc = "done" =>
        /\ error_count = BackfillCount({"scrape_raised", "process_raised"})
        /\ success_count >= BackfillCount({"dry_run", "processed"})
        /\ success_count + error_count <= Len(backfill_log)

\* C21: when reprocess_episode runs on an episode whose metadata file already
\* exists, the object it writes is merged: every key of the prior object that
\* is no key of the new processing metadata keeps its prior value, and every
\* key of the new processing metadata is present with its new value.
C21_MetadataMergedNotReplaced ==
    (rpc = "reprocessed" /\ reprocess_result /\ metadata_before /= NoFile) =>
        /\ metadata_file.kind = "obj"
        /\ \A i \in DOMAIN metadata_before.items :
              LET item == metadata_before.items[i] IN
              ~DictHas(processing_metadata, item.key) =>
                  (DictHas(metadata_file.items, item.key)
                   /\ DictGet(metadata_file.items, item.key, JsonNull) = item.val)
        /\ \A i \in DOMAIN processing_metadata :
              LET item == processing_metadata[i] IN
              /\ DictHas(metadata_file.items, item.key)
              /\ DictGet(metadata_file.items, item.key, JsonNull) = item.val

\* A second reprocessing of an exported episode: the exported objects are
\* still there, and the date of the first reprocessing is overwritten.
C21_Witness ==
    /\ rpc = "reprocessed"
    /\ reprocess_result
    /\ reprocess_runs = 2
    /\ DictHas(metadata_before.items, "podcast")
    /\ DictGet(metadata_before.items, "reprocessed_date", JsonNull) = JsonStr("t1")
    /\ DictGet(metadata_file.items, "reprocessed_date", JsonNull) = JsonStr("t2")
    /\ DictGet(metadata_file.items, "podcast", JsonNull) = DictGet(metadata_before.items, "podcast", JsonNull)
    /\ DictHas(metadata_file.items, "export")

\* The fields a reprocessing run records, and those the original run records.
ReprocessingFields == {"reprocessed_date", "llm_provider", "llm_model",
                       "reprocessing_time_seconds", "speaker_mappings_applied"}
OriginalFields == {"model_used", "language_detected", "device_used"}
ProcessingObject == DictGet(metadata_file.items, "processing", JsonNull)

\* C22: after an episode is reprocessed, the fields of the reprocessing run
\* are inside the `processing` object of the metadata artifact, together with
\* the fields the original run recorded there.
C22_ReprocessingFieldsInProcessingObject ==
    (rpc = "reprocessed" /\ reprocess_result /\ DictHas(metadata_before.items, "processing")) =>
        /\ ProcessingObject.kind = "obj"
        /\ \A k \in OriginalFields : DictHas(ProcessingObject.items, k)
        /\ \A i \in DOMAIN processing_metadata :
              processing_metadata[i].key \in ReprocessingFields =>
                  DictGet(ProcessingObject.items, processing_metadata[i].key, JsonNull)
                      = processing_metadata[i].val

\* The speakers whose summed overlap with a transcript segment is greatest,
\* and the turns of theirs that overlap it.
TopSpeakers(seg) ==
    {sp \in TurnSpeakers :
        /\ SummedOverlap(seg.start, seg.end, diarization_segments, sp) > 0
        /\ \A other \in TurnSpeakers :
              SummedOverlap(seg.start, seg.end, diarization_segments, other)
                  <= SummedOverlap(seg.start, seg.end, diarization_segments, sp)}
TopTurns(seg) ==
    {k \in DOMAIN diarization_segments :
        /\ Overlap(seg.start, seg.end, diarization_segments[k]) > 0
        /\ diarization_segments[k].speaker \in TopSpeakers(seg)}

\* C23: when two or more speakers have exactly equal maximal accumulated
\* overlap with a segment, the aligner returns the one of them that comes
\* first, with positive overlap, in the order of the turn list.
C23_TieGoesToFirstEncountered ==
    apc = "aligned" =>
        \A i \in DOMAIN merged_segments :
            LET seg == transcription_segments[i] IN
            Cardinality(TopSpeakers(seg)) >= 2 =>
                \E k \in TopTurns(seg) :
                    /\ \A m \in TopTurns(seg) : k <= m
                    /\ merged_segments[i].speaker = diarization_segments[k].speaker

\* Two speakers tie, and the one returned is the one whose turn comes first,
\* though its id is the greater one.
C23_Witness ==
    /\ apc = "aligned"
    /\ Len(merged_segments) = 1
    /\ Cardinality(TopSpeakers(transcription_segments[1])) = 2
    /\ merged_segments[1].speaker = "SPEAKER_01"
    /\ \E k \in DOMAIN diarization_segments :
          /\ diarization_segments[k].speaker = "SPEAKER_01"
          /\ Overlap(transcription_segments[1].start, transcription_segments[1].end,
                     diarization_segments[k]) > 0
          /\ \A m \in 1..(k - 1) :
                Overlap(transcription_segments[1].start, transcription_segments[1].end,
                        diarization_segments[m]) = 0

\* C24: the directory and filename prefix _episode_already_transcribed checks
\* are those export_all_formats writes to, for every episode and every
\* output_dir argument, an override differing from the configured base
\* directory included; so after process_episode(episode, output_dir) has
\* succeeded, a second call with the same arguments is skipped.
C24_CheckLooksWhereExportWrites ==
    \A i \in DOMAIN episodes :
        outcome[i] = "success" =>
            /\ CanonicalArtifacts(i) \subseteq written[i]
            /\ episode_already_transcribed(files, episodes[i], output_dir)

\* C24 without an override: the check finds what the export wrote.
C24_CheckFindsExportUnderBaseDir ==
    \A i \in DOMAIN episodes :
        (outcome[i] = "success" /\ output_dir = None) =>
            /\ CanonicalArtifacts(i) \subseteq written[i]
            /\ episode_already_transcribed(files, episodes[i], output_dir)

\* The positions of a phase, after its first `intro` segments, where the
\* speaker differs from the one of the segment just before; with
\* first_counts, the first position after the intro counts as one too.
Transitions(phase, intro, first_counts) ==
    {i \in (intro + 1)..Len(phase) :
        \/ phase[i].speaker /= phase[i - 1].speaker
        \/ first_counts /\ i = intro + 1}
\* The first `most` of them.
FirstTransitions(phase, intro, first_counts, most) ==
    {i \in Transitions(phase, intro, first_counts) :
        Cardinality({j \in Transitions(phase, intro, first_counts) : j < i}) < most}
\* The intro of a phase and the 3-segment windows around the transitions.
PhaseSample(phase, intro, first_counts, most) ==
    {phase[j] : j \in 1..Min2(intro, Len(phase))}
    \cup UNION {{phase[j] : j \in {i - 1, i, i + 1} \cap DOMAIN phase} :
                   i \in FirstTransitions(phase, intro, first_counts, most)}
\* The cap has cut nothing away.
Untruncated == Len(segments_to_use) < MaxSegments(CtxSpeakerCount)

\* C25: in two-phase sampling, after the first 30 interview segments a
\* window of previous, current and next segment is selected for exactly the
\* interview segments whose speaker differs from that of the segment just
\* before; after the first 20 main-show segments the same for the first 15
\* such transitions only; no window for a segment with its predecessor's
\* speaker.
C25_WindowsExactlyAtTransitions ==
    (TwoPhaseSampling /\ Untruncated) =>
        Selected = PhaseSample(InterviewPhase, 30, FALSE, Len(InterviewPhase))
                   \cup PhaseSample(MainShowPhase, 20, FALSE, 15)

\* C25 as the code has it: the first segment after the intro of a phase gets
\* a window whatever its speaker.
C25_WindowsAtTransitionsAndAfterIntro ==
    (TwoPhaseSampling /\ Untruncated) =>
        Selected = PhaseSample(InterviewPhase, 30, TRUE, Len(InterviewPhase))
                   \cup PhaseSample(MainShowPhase, 20, TRUE, 15)

\* No two entries of the list have the same (start, speaker_id, text).
NoDuplicateKeys(list) ==
    \A i, j \in DOMAIN list :
        (/\ list[i].start = list[j].start
         /\ list[i].speaker = list[j].speaker
         /\ list[i].text = list[j].text) => i = j
\* The list is the input with some of its entries left out. EmbedFrom
\* places the entries lo..hi of the list in the input, each at the first
\* equal entry from place `from` on, and gives the place after the last one,
\* or 0 when an entry has no place left.
RECURSIVE EmbedFrom(_, _, _, _, _)
EmbedFrom(list, input, lo, hi, from) ==
    IF lo > hi THEN from
    ELSE IF lo = hi
    THEN LET places == {p \in from..Len(input) : input[p] = list[lo]} IN
         IF places = {} THEN 0
         ELSE (CHOOSE p \in places : \A q \in places : p <= q) + 1
    ELSE LET mid == (lo + hi) \div 2
             left == EmbedFrom(list, input, lo, mid, from)
         IN IF left = 0 THEN 0 ELSE EmbedFrom(list, input, mid + 1, hi, left)
IsSubsequence(list, input) == EmbedFrom(list, input, 1, Len(list), 1) /= 0
SortedByStart(list) ==
    \A i \in 1..(Len(list) - 1) : list[i].start <= list[i + 1].start
\* One of the sampling branches ran: the input has more than 6 speakers.
Sampled == cpc = "built" /\ CtxSpeakerCount > SamplingSpeakers

\* C26: in every sampling branch, for input sorted by start, the selected
\* list has no two entries with the same (start, speaker_id, text) and is a
\* subsequence of the input, in the input's order.
C26_SelectionIsDuplicateFreeSubsequence ==
    (Sampled /\ SortedByStart(ctx_segments)) =>
        /\ NoDuplicateKeys(segments_to_use)
        /\ IsSubsequence(segments_to_use, ctx_segments)

\* C26, the part the code keeps: no duplicates, and never a later start
\* before an earlier one.
C26_SelectionIsDuplicateFreeAndSorted ==
    (Sampled /\ SortedByStart(ctx_segments)) =>
        /\ NoDuplicateKeys(segments_to_use)
        /\ SortedByStart(segments_to_use)
        /\ \A i \in DOMAIN segments_to_use :
              \E p \in DOMAIN ctx_segments : ctx_segments[p] = segments_to_use[i]

\* C26 for inputs without two equal segments.
C26_SubsequenceWithoutEqualSegments ==
    (Sampled /\ SortedByStart(ctx_segments)
     /\ \A i, j \in DOMAIN ctx_segments : ctx_segments[i] = ctx_segments[j] => i = j) =>
        /\ NoDuplicateKeys(segments_to_use)
        /\ IsSubsequence(segments_to_use, ctx_segments)

(***************************************************************************)
(* Claims about the silence-gap aligner, checked under SpecSimple.         *)
(***************************************************************************)
\* C27: the aligner emits one labelled segment per transcript segment, in
\* order, with start, end and text unchanged and a label that is SPEAKER_01
\* or SPEAKER_02; from the second segment on, the label differs from the one
\* before exactly when start minus the previous end exceeds the threshold.
C27_OneLabelledSegmentPerTranscriptSegment ==
    spc = "merged" =>
        /\ Len(simple_merged) = Len(simple_transcription)
        /\ \A i \in DOMAIN simple_merged :
              /\ simple_merged[i].start = simple_transcription[i].start
              /\ simple_merged[i].end = simple_transcription[i].end
              /\ simple_merged[i].text = simple_transcription[i].text
              /\ simple_merged[i].speaker \in {"SPEAKER_01", "SPEAKER_02"}
        /\ \A i \in 2..Len(simple_merged) :
              (simple_merged[i].speaker /= simple_merged[i - 1].speaker)
              <=> (simple_transcription[i].start - simple_transcription[i - 1].end
                   > silence_threshold)

\* Three segments: one follows after exactly the threshold and keeps the
\* label, one after more and changes it.
C27_Witness ==
    /\ spc = "merged"
    /\ Len(simple_merged) = 3
    /\ simple_transcription[2].start - simple_transcription[1].end = silence_threshold
    /\ simple_merged[2].speaker = simple_merged[1].speaker
    /\ simple_transcription[3].start - simple_transcription[2].end > silence_threshold
    /\ simple_merged[3].speaker /= simple_merged[2].speaker

\* C30: the first transcript segment is labelled SPEAKER_01, whatever its
\* start time.
C30_FirstSegmentIsSpeaker01 ==
    (spc = "merged" /\ simple_merged /= <<>>) => simple_merged[1].speaker = "SPEAKER_01"

\* C30 for a first segment that starts within the threshold.
C30_FirstSegmentWithinThresholdIsSpeaker01 ==
    (spc = "merged" /\ simple_merged /= <<>>
     /\ simple_transcription[1].start <= silence_threshold)
        => simple_merged[1].speaker = "SPEAKER_01"

(***************************************************************************)
(* More claims about the orchestrator, checked under Spec.                 *)
(***************************************************************************)
\* C28: the skip check succeeds only for episodes whose earlier run reached
\* Done: what a run that ended Failed has left behind, for example after an
\* error during export, does not make the next run skip the episode.
C28_FailedRunIsNotSkippedNextTime ==
    \A i \in DOMAIN episodes :
        Failed(i) => ~episode_already_transcribed(written[i], episodes[i], output_dir)

\* C28 for the runs that failed before the export stage.
C28_FailedBeforeExportIsNotSkipped ==
    \A i \in DOMAIN episodes :
        (Failed(i) /\ "export_all_formats" \notin SeqToSet(work[i]))
            => ~episode_already_transcribed(written[i], episodes[i], output_dir)

(***************************************************************************)
(* More claims about the naming stage, checked under SpecApply.            *)
(***************************************************************************)
\* The end of the word that starts at place i of text.
RECURSIVE TokenEnd(_, _)
TokenEnd(text, i) ==
    IF i < Len(text) /\ IsWordChar(text[i + 1]) THEN TokenEnd(text, i + 1) ELSE i
\* The text with every whole word that is a mapped id, in any letter case,
\* replaced by that id's name, and every other word left as it is.
RECURSIVE WholeTokenSubstitute(_, _, _)
WholeTokenSubstitute(items, text, i) ==
    IF i > Len(text) THEN <<>>
    ELSE IF ~IsWordChar(text[i])
    THEN <<text[i]>> \o WholeTokenSubstitute(items, text, i + 1)
    ELSE LET e == TokenEnd(text, i)
             token == SubSeq(text, i, e)
             hits == {k \in DOMAIN items : LowerStr(items[k].key) = LowerStr(token)}
         IN (IF hits = {} THEN token
             ELSE items[CHOOSE k \in hits : \A h \in hits : k <= h].val)
            \o WholeTokenSubstitute(items, text, e + 1)
\* The words of text.
Tokens(text) ==
    {SubSeq(text, i, TokenEnd(text, i)) :
        i \in {j \in DOMAIN text : IsWordChar(text[j]) /\ (j = 1 \/ ~IsWordChar(text[j - 1]))}}
\* A mapped id is a proper prefix of a word of the text.
MappedIdIsProperPrefix(items, text) ==
    \E k \in DOMAIN items, token \in Tokens(text) :
        /\ Len(items[k].key) < Len(token)
        /\ MatchesAt(items[k].key, token)
\* No name of the mapping has a mapped id in it.
NoNameHoldsId(items) ==
    \A a, b \in DOMAIN items :
        \A i \in DOMAIN items[a].val :
            ~MatchesAt(items[b].key, SubSeq(items[a].val, i, Len(items[a].val)))
\* The items of a dict in every order.
Orders(items) ==
    {[i \in DOMAIN items |-> items[p[i]]] :
        p \in {q \in [DOMAIN items -> DOMAIN items] :
                  \A a, b \in DOMAIN items : q[a] = q[b] => a = b}}

\* _apply_speaker_mappings of SpeakerIdentifier has returned a list.
Substituted == xpc = "applied" /\ apply_class = "SpeakerIdentifier" /\ ~applied.exc

\* C29: the substitution rewrites whole speaker ids only: where a mapped id
\* is a proper prefix of a longer id in the text, the longer id becomes its
\* own name, or stays if it is not mapped, and is never rewritten in part;
\* the result is the same for every order of the mapping's items.
C29_OnlyWholeIdsAreRewritten ==
    Substituted =>
        \A i \in DOMAIN apply_snapshot :
            MappedIdIsProperPrefix(apply_mapping, apply_snapshot[i].text) =>
                /\ AppliedSegments[i].text
                     = WholeTokenSubstitute(apply_mapping, apply_snapshot[i].text, 1)
                /\ \A items \in Orders(apply_mapping) :
                      SubstituteAll(items, apply_snapshot[i].text) = AppliedSegments[i].text

\* C29 for the texts in which no mapped id is a proper prefix of a word and
\* no name holds a mapped id: there the ids are rewritten as whole words,
\* whatever the order of the items.
C29_WholeIdsAreRewritten ==
    (Substituted /\ NoNameHoldsId(apply_mapping)) =>
        \A i \in DOMAIN apply_snapshot :
            ~MappedIdIsProperPrefix(apply_mapping, apply_snapshot[i].text) =>
                /\ AppliedSegments[i].text
                     = WholeTokenSubstitute(apply_mapping, apply_snapshot[i].text, 1)
                /\ \A items \in Orders(apply_mapping) :
                      SubstituteAll(items, apply_snapshot[i].text) = AppliedSegments[i].text

====
